---- MODULE Spec2Model ----
(***************************************************************************)
(* Model of homeassistant/loader.py: the integration registry kept in      *)
(* hass.data (async_get_integrations, async_get_custom_components), the    *)
(* executor jobs that probe the two filesystem roots, and the tasks of the *)
(* event loop that call them.                                              *)
(*                                                                         *)
(* A domain is the sequence of its characters.  Every step between two     *)
(* awaits of a coroutine is one action; a job run by the executor is an    *)
(* action of its own, between the step that submits it and the step that   *)
(* resumes the awaiting coroutine.                                         *)
(***************************************************************************)
EXTENDS Integers, Sequences, FiniteSets, TLC

\* ------------------------------------------------------------------------
\* Bounds of the model
\* ------------------------------------------------------------------------

\* Number of manifests the user corrects while the process runs.
MaxEdits == 1

\* The order in which the tasks of the event loop issue their calls.
TaskOrder == <<"t1", "t2", "t3", "t4", "t5">>

DomA == <<"a">>
DomB == <<"b">>
DomC == <<"c">>
DomD == <<"d">>
DomE == <<"e">>
DomDotted == <<"c", ".", "d">>

VARIABLES
    config,        \* hass.config: config_dir is set, safe_mode
    customRoot,    \* "missing": import custom_components fails;
                   \* "unreadable": iterdir() on it raises; "ok"
    customFS,      \* manifests under custom_components/
    builtinFS,     \* manifests under homeassistant/components/
    integrations,  \* hass.data.get(DATA_INTEGRATIONS): None or the cache dict
    custom,        \* hass.data.get(DATA_CUSTOM_COMPONENTS): None, Event, dict
    evset,         \* the asyncio.Event objects that are set
    task,          \* per task: the frame of its async_get_integrations call
    edits,         \* manifests rewritten so far
    components,    \* hass.data.get(DATA_COMPONENTS): None or the module cache
    manifestData,  \* per domain: "dependencies" and "after_dependencies" of
                   \* its manifest.json
    resolution,    \* per domain: what resolve_dependencies stored in the
                   \* Integration of that domain
    generated      \* the module-level tables of homeassistant.generated:
                   \* ZEROCONF, DHCP, SSDP, BLUETOOTH, USB, HOMEKIT, MQTT,
                   \* FLOWS, APPLICATION_CREDENTIALS

vars == <<config, customRoot, customFS, builtinFS, integrations, custom,
          evset, task, edits, components, manifestData, resolution,
          generated>>

\* The tasks of the event loop; each makes one async_get_integrations call.
Tasks == DOMAIN task

\* Domains that callers request: those the roots may hold and a dotted name.
Domains == (DOMAIN builtinFS) \cup {DomDotted}

\* `"." in domain`
HasDot(domain) == \E i \in 1..Len(domain) : domain[i] = "."

PlainDomains == {d \in Domains : ~HasDot(d)}

\* The iterables of domains a call may be given: one domain, two domains,
\* a domain named twice, a dotted domain alone or next to a plain one.
Requests ==
    {<<DomA>>, <<DomB>>, <<DomDotted>>, <<DomA, DomB>>, <<DomA, DomA>>,
     <<DomDotted, DomB>>}

\* ------------------------------------------------------------------------
\* Values held by the registry and returned to callers
\* ------------------------------------------------------------------------

\* _UNDEF / a key that a dict does not hold
Undef == [kind |-> "undef", id |-> "", domain |-> <<>>, root |-> ""]

\* asyncio.Event(): the object is named by the call that created it and
\* the domain it is the pending marker of (<<>>: the event of the
\* custom-components scan).
Event(t, domain) == [kind |-> "evt", id |-> t, domain |-> domain, root |-> ""]

\* Integration(...): the object is named by the call whose executor job
\* built it, its domain and its root.
Integration(t, domain, root) ==
    [kind |-> "int", id |-> t, domain |-> domain, root |-> root]

IntegrationNotFound(domain) ==
    [kind |-> "notfound", id |-> "", domain |-> domain, root |-> ""]

ValueError(domain) ==
    [kind |-> "valueerror", id |-> "", domain |-> domain, root |-> ""]

\* An empty dict keyed by domain.
EmptyDict == [d \in Domains |-> Undef]

Keys(dict) == {d \in Domains : dict[d].kind # "undef"}

\* hass.data.get(KEY) is None
None == [kind |-> "none"]

\* ------------------------------------------------------------------------
\* The filesystem: what <root>/<domain>/manifest.json holds
\* ------------------------------------------------------------------------

\* no manifest.json; not JSON; JSON without "domain" (Integration.__init__
\* raises KeyError in its log line); no "version"; a version no strategy
\* parses; a complete manifest.
ManifestKinds ==
    {"none", "malformed", "nodomain", "noversion", "badversion", "valid"}

PACKAGE_CUSTOM_COMPONENTS == "custom_components"
PACKAGE_BUILTIN == "homeassistant.components"

\* The hosts the process may start in: hass.config and the state of the
\* custom_components package.
InitialHosts ==
    {[config_dir |-> TRUE, safe_mode |-> FALSE, customRoot |-> "ok"],
     [config_dir |-> TRUE, safe_mode |-> FALSE, customRoot |-> "unreadable"],
     [config_dir |-> TRUE, safe_mode |-> FALSE, customRoot |-> "missing"],
     [config_dir |-> TRUE, safe_mode |-> TRUE, customRoot |-> "ok"],
     [config_dir |-> FALSE, safe_mode |-> FALSE, customRoot |-> "ok"]}

\* The roots the process may start with: (custom root, built-in root).
InitialRoots ==
    {[custom |-> (DomA :> "valid" @@ DomB :> "none"),
      builtin |-> (DomA :> "valid" @@ DomB :> "none")],
     [custom |-> (DomA :> "noversion" @@ DomB :> "badversion"),
      builtin |-> (DomA :> "none" @@ DomB :> "valid")],
     [custom |-> (DomA :> "none" @@ DomB :> "malformed"),
      builtin |-> (DomA :> "noversion" @@ DomB :> "nodomain")]}

\* A manifest without "dependencies" and "after_dependencies".
NoDependencies == [dependencies |-> <<>>, after_dependencies |-> <<>>]

\* _all_dependencies_resolved and _all_dependencies as Integration.__init__
\* leaves them for a manifest with dependencies (lines 492-493).
Unresolved == [resolved |-> "None", all |-> None]

\* No exception.
NoError ==
    [kind |-> "none", from_domain |-> <<>>, to_domain |-> <<>>, domain |-> <<>>]

\* The frame of a task that does not resolve dependencies.
NoResolver ==
    [mode |-> "off",       \* "get": awaiting async_get_integration(start);
                           \* "deps": inside resolve_dependencies; "end"
     start |-> <<>>,       \* start_domain
     stack |-> <<>>,       \* frames of _async_component_dependencies:
                           \* the integration and the position of its loop
     loaded |-> {},
     loading |-> {},
     cur |-> <<>>,         \* the domain async_get_integration was called with
     outcome |-> "none",   \* "True", "False": returned; "raised"
     err |-> NoError,      \* the exception logged or propagated
     fetched |-> {},       \* the dependencies fetched from the registry
     prior |-> {}]         \* what earlier calls on start had returned

\* Generated tables without an entry.
NoTables ==
    [ZEROCONF |-> <<>>, DHCP |-> <<>>, SSDP |-> <<>>, BLUETOOTH |-> <<>>,
     USB |-> <<>>, HOMEKIT |-> <<>>, MQTT |-> <<>>,
     FLOWS |-> [helper |-> <<>>, integration |-> <<>>],
     APPLICATION_CREDENTIALS |-> <<>>]

\* The frame of a task that has called no discovery accessor.
NoDiscovery ==
    [protocol |-> "none", type_filter |-> "None", order |-> <<>>, out |-> <<>>]

\* An executor job: "queued", then "returned" or "raised" once a worker ran it.
NoJob == [state |-> "none", names |-> {}, ints |-> EmptyDict]

\* The frame of a call that has not started.
IdleTask(t) ==
    [self |-> t,
     pc |-> "idle",
     domains |-> <<>>,
     results |-> EmptyDict,
     needed |-> EmptyDict,
     in_progress |-> EmptyDict,
     owned |-> EmptyDict,      \* the markers line 753 created in this call
     probed |-> {},            \* list(needed) handed to the built-in probe
     seen |-> [d \in Domains |-> "unread"],  \* manifests that probe read
     io |-> {},                \* executor jobs this call submitted
     cevt |-> Undef,           \* the custom-components event awaited or owned
     reg |-> None,             \* what async_get_custom_components returned
     manifests |-> <<>>,       \* the built-in root when the call was issued
     res |-> NoResolver,       \* the resolve_dependencies call of the task
     disc |-> NoDiscovery,     \* the discovery accessor the task called
     job |-> NoJob]

Init ==
    /\ \E host \in InitialHosts :
          /\ config = [config_dir |-> host.config_dir, safe_mode |-> host.safe_mode]
          /\ customRoot = host.customRoot
    /\ \E r \in InitialRoots : customFS = r.custom /\ builtinFS = r.builtin
    /\ integrations = None
    /\ custom = None
    /\ evset = {}
    /\ task = [t \in {"t1", "t2", "t3"} |-> IdleTask(t)]
    /\ edits = 0
    /\ components = None
    /\ manifestData = [d \in DOMAIN builtinFS |-> NoDependencies]
    /\ resolution = [d \in DOMAIN builtinFS |-> Unresolved]
    /\ generated = NoTables

\* The mutable part of the process that a coroutine step reads and writes.
Heap == [integrations |-> integrations, custom |-> custom,
         evset |-> evset, resolution |-> resolution,
         generated |-> generated, manifestData |-> manifestData]

\* ------------------------------------------------------------------------
\* Executor jobs (run on a worker thread; they read the filesystem only)
\* ------------------------------------------------------------------------

\* Integration.resolve_from_root: the Integration built from the manifest,
\* Undef for `return None`, and "raise" when Integration.__init__ raises.
resolve_from_root(root, kind, domain, t) ==
    IF kind \in {"none", "malformed"} THEN Undef
    ELSE IF kind = "nodomain" THEN [Undef EXCEPT !.kind = "raise"]
    ELSE IF root = PACKAGE_BUILTIN THEN Integration(t, domain, root)
    ELSE IF kind \in {"noversion", "badversion"} THEN Undef
    ELSE Integration(t, domain, root)

\* _resolve_integrations_from_root: the dict of the domains that resolved;
\* an exception of one domain is logged and that domain is left out.
resolve_integrations_from_root(root, fs, domains, t) ==
    [d \in Domains |->
        IF d \in domains /\ d \in DOMAIN fs
        THEN LET integration == resolve_from_root(root, fs[d], d, t)
             IN IF integration.kind = "int" THEN integration ELSE Undef
        ELSE Undef]

\* What entry.is_dir() can answer for the entries of a root: a domain with
\* a manifest.json has its directory, a domain without one may be a
\* directory with no manifest.json in it, a plain file, or absent.
IsDir(fs) ==
    {is_dir \in [DOMAIN fs -> BOOLEAN] :
        \A d \in DOMAIN fs : fs[d] # "none" => is_dir[d]}

\* get_sub_directories (lines 178-185): the entries of custom_components/
\* that are directories.
get_sub_directories(fs, is_dir) == {d \in DOMAIN fs : is_dir[d]}

\* ------------------------------------------------------------------------
\* async_get_integrations, one operator per stretch between awaits.
\* Each takes the heap h and the frame k of the call and gives both back.
\* ------------------------------------------------------------------------

Done(h, k) == [h |-> h, k |-> [k EXCEPT !.pc = "done"]]

Submit(names) == [NoJob EXCEPT !.state = "queued", !.names = names]

\* Mutant of AfterBuiltin: a failed resolution is left in the cache as the
\* IntegrationNotFound it reports.
AfterBuiltinCachingFailure(h, k, ints) ==
    LET needed == Keys(k.needed)
        results == [d \in Domains |->
                    IF d \notin needed THEN k.results[d]
                    ELSE IF ints[d].kind = "undef" THEN IntegrationNotFound(d)
                    ELSE ints[d]]
        cache == [d \in Domains |->
                    IF d \notin needed THEN h.integrations.map[d] ELSE results[d]]
    IN Done([h EXCEPT !.integrations.map = cache,
                      !.evset = @ \cup {k.needed[d] : d \in needed}],
            [k EXCEPT !.results = results, !.job = NoJob])

\* Lines 787-801: commit the result of the built-in probe and return.
AfterBuiltin(h, k, ints) ==
    LET needed == Keys(k.needed)
        cache == [d \in Domains |->
                    IF d \notin needed THEN h.integrations.map[d]
                    ELSE IF ints[d].kind = "undef" THEN Undef
                    ELSE ints[d]]
        results == [d \in Domains |->
                    IF d \notin needed THEN k.results[d]
                    ELSE IF ints[d].kind = "undef" THEN IntegrationNotFound(d)
                    ELSE ints[d]]
    IN Done([h EXCEPT !.integrations.map = cache,
                      !.evset = @ \cup {k.needed[d] : d \in needed}],
            [k EXCEPT !.results = results, !.job = NoJob])

\* Mutant of AfterCustom: the custom components are not consulted and every
\* needed domain goes to the built-in probe.
AfterCustomSkipped(h, k, reg) ==
    LET needed == [d \in Domains |->
                      IF d \in Keys(k.results) THEN Undef ELSE k.needed[d]]
        k2 == [k EXCEPT !.needed = needed, !.job = NoJob]
    IN IF Keys(needed) # {}
       THEN [h |-> h,
             k |-> [k2 EXCEPT !.pc = "builtin_job",
                              !.probed = Keys(needed),
                              !.io = @ \cup {"builtin"},
                              !.job = Submit(Keys(needed))]]
       ELSE Done(h, k2)

\* Lines 771-786: take what the custom components hold, drop it from
\* needed, and hand the rest to the built-in probe.
AfterCustom(h, k, reg) ==
    LET hit == {d \in Keys(k.needed) : reg[d].kind # "undef"}
        cache == [d \in Domains |-> IF d \in hit THEN reg[d] ELSE h.integrations.map[d]]
        results == [d \in Domains |-> IF d \in hit THEN reg[d] ELSE k.results[d]]
        needed == [d \in Domains |-> IF d \in Keys(results) THEN Undef ELSE k.needed[d]]
        h2 == [h EXCEPT !.integrations.map = cache,
                        !.evset = @ \cup {k.needed[d] : d \in hit}]
        k2 == [k EXCEPT !.results = results, !.needed = needed, !.job = NoJob,
                        !.reg = [kind |-> "reg", map |-> reg]]
    IN IF Keys(needed) # {}
       THEN [h |-> h2,
             k |-> [k2 EXCEPT !.pc = "builtin_job",
                              !.probed = Keys(needed),
                              !.io = @ \cup {"builtin"},
                              !.job = Submit(Keys(needed))]]
       ELSE Done(h2, k2)

\* ------------------------------------------------------------------------
\* The discovery accessors: what follows `integrations = await
\* async_get_custom_components(hass)` in async_get_zeroconf, async_get_dhcp
\* and async_get_ssdp.  A dict is a function on its keys; a string that the
\* code lower-cases is a sequence of characters.
\* ------------------------------------------------------------------------

MOVED_ZEROCONF_PROPS == <<"macaddress", "model", "manufacturer">>

\* dict.pop(key, None) and del dict[key]: the dict without the key.
Pop(dict, key) == [x \in (DOMAIN dict) \ {key} |-> dict[x]]

\* dict[key] = value
Put(dict, key, value) ==
    [x \in (DOMAIN dict) \cup {key} |-> IF x = key THEN value ELSE dict[x]]

\* {**first, **second}: the keys of both, second wins.
Merge(first, second) ==
    [x \in (DOMAIN first) \cup (DOMAIN second) |->
        IF x \in DOMAIN second THEN second[x] ELSE first[x]]

\* str.lower() on the letters the model uses.
lower(value) ==
    [i \in 1..Len(value) |->
        IF value[i] = "A" THEN "a"
        ELSE IF value[i] = "B" THEN "b"
        ELSE value[i]]

RECURSIVE MoveProps(_, _)
\* Lines 273-284: the loop over MOVED_ZEROCONF_PROPS from position i.
MoveProps(entry_without_type, i) ==
    IF i > Len(MOVED_ZEROCONF_PROPS) THEN entry_without_type
    ELSE LET moved_prop == MOVED_ZEROCONF_PROPS[i]
             popped == Pop(entry_without_type, moved_prop)
         IN IF moved_prop \in DOMAIN entry_without_type
               /\ entry_without_type[moved_prop] # <<>>
            THEN LET prop_dict == IF "properties" \in DOMAIN popped
                                  THEN popped["properties"] ELSE <<>>
                 IN MoveProps(
                        Put(popped, "properties",
                            Put(prop_dict, moved_prop,
                                lower(entry_without_type[moved_prop]))),
                        i + 1)
            ELSE MoveProps(popped, i + 1)

\* Mutant of async_process_zeroconf_match_dict: the keys stay where they are.
async_process_zeroconf_match_dict_unmoved(entry) == Pop(entry, "type")

\* async_process_zeroconf_match_dict(entry) (lines 267-285): the dict it
\* returns.
async_process_zeroconf_match_dict(entry) == MoveProps(Pop(entry, "type"), 1)

\* The entry of the manifest after the call: entry.copy() is shallow, so a
\* "properties" dict the entry came with is the one line 284 writes to.
MatchDictAfterCall(entry) ==
    IF "properties" \in DOMAIN entry
    THEN Put(entry, "properties",
             async_process_zeroconf_match_dict(entry)["properties"])
    ELSE entry

\* The custom Integrations in the order integrations.values() yields them,
\* with the fragment each has for the protocol.
Contributions(h, k, reg, protocol) ==
    SelectSeq([i \in 1..Len(k.disc.order) |->
                  [domain |-> k.disc.order[i],
                   fragment |-> IF reg[k.disc.order[i]].kind = "int"
                                THEN h.manifestData[k.disc.order[i]][protocol]
                                ELSE <<>>]],
              LAMBDA c : c.fragment # <<>>)

RECURSIVE AppendZeroconf(_, _, _, _)
\* Lines 300-306 for the entries of one Integration from position i on:
\* acc.out is the dict being returned, acc.table the module-level ZEROCONF,
\* whose lists the shallow copy of line 292 shares.
AppendZeroconf(acc, domain, fragment, i) ==
    IF i > Len(fragment) THEN acc
    ELSE LET entry == fragment[i]
             typ == IF entry.kind = "dict" THEN entry.dict["type"] ELSE entry.str
             data == IF entry.kind = "dict"
                     THEN Merge([x \in {"domain"} |-> domain],
                                async_process_zeroconf_match_dict(entry.dict))
                     ELSE [x \in {"domain"} |-> domain]
             out == IF typ \in DOMAIN acc.out
                    THEN [acc.out EXCEPT ![typ] = Append(@, data)]
                    ELSE Put(acc.out, typ, <<data>>)
             table == IF typ \in DOMAIN acc.table
                      THEN [acc.table EXCEPT ![typ] = Append(@, data)]
                      ELSE acc.table
         IN AppendZeroconf([out |-> out, table |-> table],
                           domain, fragment, i + 1)

RECURSIVE ZeroconfLoop(_, _, _)
\* Lines 295-306: the loop over the Integrations from position i on.
ZeroconfLoop(acc, contributions, i) ==
    IF i > Len(contributions) THEN acc
    ELSE ZeroconfLoop(AppendZeroconf(acc, contributions[i].domain,
                                     contributions[i].fragment, 1),
                      contributions, i + 1)

\* The "zeroconf" list of a manifest after async_get_zeroconf walked it.
ZeroconfAfterCall(fragment) ==
    [i \in 1..Len(fragment) |->
        IF fragment[i].kind = "dict"
        THEN [fragment[i] EXCEPT !.dict = MatchDictAfterCall(@)]
        ELSE fragment[i]]

\* async_get_zeroconf (lines 288-308) after its await.
async_get_zeroconf(h, k, reg) ==
    LET contributions == Contributions(h, k, reg, "zeroconf")
        acc == ZeroconfLoop([out |-> h.generated.ZEROCONF,
                             table |-> h.generated.ZEROCONF],
                            contributions, 1)
    IN Done([h EXCEPT !.generated.ZEROCONF = acc.table,
                      !.manifestData =
                          [d \in DOMAIN @ |->
                              IF reg[d].kind = "int"
                              THEN [@[d] EXCEPT !.zeroconf = ZeroconfAfterCall(@)]
                              ELSE @[d]]],
            [k EXCEPT !.disc.out = acc.out])

RECURSIVE TaggedEntries(_, _, _)
\* Lines 335-336: {"domain": integration.domain, **entry} for the entries
\* of one Integration from position i on.
TaggedEntries(domain, fragment, i) ==
    IF i > Len(fragment) THEN <<>>
    ELSE <<Merge([x \in {"domain"} |-> domain], fragment[i])>>
         \o TaggedEntries(domain, fragment, i + 1)

RECURSIVE DhcpLoop(_, _, _)
\* Lines 332-336: the loop over the Integrations from position i on.
DhcpLoop(dhcp, contributions, i) ==
    IF i > Len(contributions) THEN dhcp
    ELSE DhcpLoop(dhcp \o TaggedEntries(contributions[i].domain,
                                        contributions[i].fragment, 1),
                  contributions, i + 1)

\* async_get_dhcp (lines 327-338) after its await.
async_get_dhcp(h, k, reg) ==
    Done(h, [k EXCEPT !.disc.out =
                DhcpLoop(h.generated.DHCP,
                         Contributions(h, k, reg, "dhcp"), 1)])

RECURSIVE SsdpLoop(_, _, _)
\* Lines 388-392: the loop over the Integrations from position i on.
SsdpLoop(ssdp, contributions, i) ==
    IF i > Len(contributions) THEN ssdp
    ELSE SsdpLoop(Put(ssdp, contributions[i].domain, contributions[i].fragment),
                  contributions, i + 1)

\* async_get_ssdp (lines 382-394) after its await.
async_get_ssdp(h, k, reg) ==
    Done(h, [k EXCEPT !.disc.out =
                SsdpLoop(h.generated.SSDP,
                         Contributions(h, k, reg, "ssdp"), 1)])

\* async_get_bluetooth (lines 311-324) after its await: the loop is the
\* one of async_get_dhcp.
async_get_bluetooth(h, k, reg) ==
    Done(h, [k EXCEPT !.disc.out =
                DhcpLoop(h.generated.BLUETOOTH,
                         Contributions(h, k, reg, "bluetooth"), 1)])

\* Lines 350-358: every entry of one Integration without "known_devices".
WithoutKnownDevices(fragment) ==
    [i \in 1..Len(fragment) |-> Pop(fragment[i], "known_devices")]

RECURSIVE UsbLoop(_, _, _)
\* Lines 346-358: the loop over the Integrations from position i on.
UsbLoop(usb, contributions, i) ==
    IF i > Len(contributions) THEN usb
    ELSE UsbLoop(usb \o TaggedEntries(contributions[i].domain,
                                      WithoutKnownDevices(contributions[i].fragment),
                                      1),
                 contributions, i + 1)

\* async_get_usb (lines 341-360) after its await.
async_get_usb(h, k, reg) ==
    Done(h, [k EXCEPT !.disc.out =
                UsbLoop(h.generated.USB, Contributions(h, k, reg, "usb"), 1)])

RECURSIVE PutModels(_, _, _, _)
\* Lines 376-377: homekit[model] = integration.domain for the models of
\* one Integration from position i on.
PutModels(homekit, domain, models, i) ==
    IF i > Len(models) THEN homekit
    ELSE PutModels(Put(homekit, models[i], domain), domain, models, i + 1)

RECURSIVE HomekitLoop(_, _, _)
\* Lines 369-377: the loop over the Integrations from position i on.
HomekitLoop(homekit, contributions, i) ==
    IF i > Len(contributions) THEN homekit
    ELSE LET fragment == contributions[i].fragment
         IN IF "models" \notin DOMAIN fragment \/ fragment["models"] = <<>>
            THEN HomekitLoop(homekit, contributions, i + 1)
            ELSE HomekitLoop(PutModels(homekit, contributions[i].domain,
                                       fragment["models"], 1),
                             contributions, i + 1)

\* async_get_homekit (lines 363-379) after its await.
async_get_homekit(h, k, reg) ==
    Done(h, [k EXCEPT !.disc.out =
                HomekitLoop(h.generated.HOMEKIT,
                            Contributions(h, k, reg, "homekit"), 1)])

\* async_get_mqtt (lines 397-409) after its await: the loop is the one of
\* async_get_ssdp.
async_get_mqtt(h, k, reg) ==
    Done(h, [k EXCEPT !.disc.out =
                SsdpLoop(h.generated.MQTT,
                         Contributions(h, k, reg, "mqtt"), 1)])

\* The elements of a list.
Elements(list) == {list[i] : i \in 1..Len(list)}

\* Integration.integration_type (lines 560-565)
integration_type(manifest) ==
    IF "integration_type" \in DOMAIN manifest
    THEN manifest["integration_type"] ELSE "integration"

\* async_get_config_flows (lines 224-250) after its await: a set.
async_get_config_flows(h, k, reg) ==
    LET type_filter == k.disc.type_filter
        FLOWS == h.generated.FLOWS
        flows == IF type_filter # "None" THEN Elements(FLOWS[type_filter])
                 ELSE UNION {Elements(FLOWS[f]) : f \in DOMAIN FLOWS}
    IN Done(h, [k EXCEPT !.disc.out =
                   flows \cup
                   {d \in Elements(k.disc.order) :
                       /\ reg[d].kind = "int"
                       /\ h.manifestData[d].config_flow
                       /\ \/ type_filter = "None"
                          \/ integration_type(h.manifestData[d]) = type_filter}])

\* The domain that async_get_application_credentials looks for.
DomCredentials == <<"application_credentials">>

\* async_get_application_credentials (lines 253-264) after its await.
async_get_application_credentials(h, k, reg) ==
    Done(h, [k EXCEPT !.disc.out =
                h.generated.APPLICATION_CREDENTIALS
                \o SelectSeq(k.disc.order,
                             LAMBDA d :
                                /\ reg[d].kind = "int"
                                /\ DomCredentials \in
                                      Elements(h.manifestData[d].dependencies))])

\* `await async_get_custom_components(hass)` returns reg to its caller:
\* a discovery accessor, async_get_integrations (line 771), or a caller
\* that asked for the mapping itself.
CustomComponentsReturn(h, k, reg) ==
    IF k.disc.protocol = "zeroconf" THEN async_get_zeroconf(h, k, reg)
    ELSE IF k.disc.protocol = "dhcp" THEN async_get_dhcp(h, k, reg)
    ELSE IF k.disc.protocol = "ssdp" THEN async_get_ssdp(h, k, reg)
    ELSE IF k.disc.protocol = "bluetooth" THEN async_get_bluetooth(h, k, reg)
    ELSE IF k.disc.protocol = "usb" THEN async_get_usb(h, k, reg)
    ELSE IF k.disc.protocol = "homekit" THEN async_get_homekit(h, k, reg)
    ELSE IF k.disc.protocol = "mqtt" THEN async_get_mqtt(h, k, reg)
    ELSE IF k.disc.protocol = "config_flows"
    THEN async_get_config_flows(h, k, reg)
    ELSE IF k.disc.protocol = "application_credentials"
    THEN async_get_application_credentials(h, k, reg)
    ELSE IF k.disc.protocol = "custom_components"
    THEN Done(h, [k EXCEPT !.disc.out = reg])
    ELSE AfterCustom(h, k, reg)

\* Mutant of GetCustomComponents: a caller that finds the scan in flight
\* does not wait for it but installs its own event and scans again.
GetCustomComponentsRescanning(h, k) ==
    IF h.custom.kind \in {"none", "evt"} THEN
        IF config.safe_mode \/ customRoot = "missing"
        THEN CustomComponentsReturn([h EXCEPT !.custom = [kind |-> "reg", map |-> EmptyDict],
                                   !.evset = @ \cup {Event(k.self, <<>>)}],
                         k, EmptyDict)
        ELSE [h |-> [h EXCEPT !.custom = [kind |-> "evt", evt |-> Event(k.self, <<>>)]],
              k |-> [k EXCEPT !.pc = "scan_dirs", !.cevt = Event(k.self, <<>>),
                              !.io = @ \cup {"custom_dirs"},
                              !.job = Submit({})]]
    ELSE CustomComponentsReturn(h, k, h.custom.map)

\* Mutant of GetCustomComponents: the safe-mode flag is not consulted.
GetCustomComponentsInSafeMode(h, k) ==
    IF h.custom.kind = "none" THEN
        IF customRoot = "missing"
        THEN CustomComponentsReturn([h EXCEPT !.custom = [kind |-> "reg", map |-> EmptyDict],
                                   !.evset = @ \cup {Event(k.self, <<>>)}],
                         k, EmptyDict)
        ELSE [h |-> [h EXCEPT !.custom = [kind |-> "evt", evt |-> Event(k.self, <<>>)]],
              k |-> [k EXCEPT !.pc = "scan_dirs", !.cevt = Event(k.self, <<>>),
                              !.io = @ \cup {"custom_dirs"},
                              !.job = Submit({})]]
    ELSE IF h.custom.kind = "evt"
    THEN [h |-> h, k |-> [k EXCEPT !.pc = "custom_wait", !.cevt = h.custom.evt]]
    ELSE CustomComponentsReturn(h, k, h.custom.map)

\* async_get_custom_components (lines 208-221) up to its first await, and
\* _async_get_custom_components (lines 170-189) up to its first await.
GetCustomComponents(h, k) ==
    IF h.custom.kind = "none" THEN
        IF config.safe_mode \/ customRoot = "missing"
        THEN \* reg = {}; cached, evt.set(), no suspension
             CustomComponentsReturn([h EXCEPT !.custom = [kind |-> "reg", map |-> EmptyDict],
                                   !.evset = @ \cup {Event(k.self, <<>>)}],
                         k, EmptyDict)
        ELSE [h |-> [h EXCEPT !.custom = [kind |-> "evt", evt |-> Event(k.self, <<>>)]],
              k |-> [k EXCEPT !.pc = "scan_dirs", !.cevt = Event(k.self, <<>>),
                              !.io = @ \cup {"custom_dirs"},
                              !.job = Submit({})]]
    ELSE IF h.custom.kind = "evt"
    THEN [h |-> h, k |-> [k EXCEPT !.pc = "custom_wait", !.cevt = h.custom.evt]]
    ELSE CustomComponentsReturn(h, k, h.custom.map)

\* Lines 766-770 and 781: `if needed:`
CustomPhase(h, k) ==
    IF Keys(k.needed) # {} THEN GetCustomComponents(h, k) ELSE Done(h, k)

\* Lines 757-764: after the gather, re-read the cache for every domain
\* that was in progress.
AfterGather(h, k) ==
    LET results == [d \in Domains |->
                      IF d \notin Keys(k.in_progress) THEN k.results[d]
                      ELSE IF h.integrations.map[d].kind = "undef"
                           THEN IntegrationNotFound(d)
                           ELSE h.integrations.map[d]]
    IN CustomPhase(h, [k EXCEPT !.results = results])

\* Mutant of ClassifyDomain: a resolved entry is not returned from the cache
\* but marked pending and resolved again.
ClassifyDomainResolvingAgain(st, domain) ==
    LET int_or_evt == st.cache[domain] IN
    IF int_or_evt.kind = "evt"
    THEN [st EXCEPT !.in_progress[domain] = int_or_evt]
    ELSE IF HasDot(domain)
    THEN [st EXCEPT !.results[domain] = ValueError(domain)]
    ELSE [st EXCEPT !.needed[domain] = Event(st.self, domain),
                    !.cache[domain] = Event(st.self, domain)]

\* Mutant of ClassifyDomain: the pending marker is created but not written
\* to the cache in the step that saw the domain absent.
ClassifyDomainUnmarked(st, domain) ==
    LET int_or_evt == st.cache[domain] IN
    IF int_or_evt.kind = "evt"
    THEN [st EXCEPT !.in_progress[domain] = int_or_evt]
    ELSE IF int_or_evt.kind # "undef"
    THEN [st EXCEPT !.results[domain] = int_or_evt]
    ELSE IF HasDot(domain)
    THEN [st EXCEPT !.results[domain] = ValueError(domain)]
    ELSE [st EXCEPT !.needed[domain] = Event(st.self, domain)]

\* Mutant of ClassifyDomain: the test for a dot is missing.
ClassifyDomainUnchecked(st, domain) ==
    LET int_or_evt == st.cache[domain] IN
    IF int_or_evt.kind = "evt"
    THEN [st EXCEPT !.in_progress[domain] = int_or_evt]
    ELSE IF int_or_evt.kind # "undef"
    THEN [st EXCEPT !.results[domain] = int_or_evt]
    ELSE [st EXCEPT !.needed[domain] = Event(st.self, domain),
                    !.cache[domain] = Event(st.self, domain)]

\* Lines 744-753: one iteration of `for domain in domains`.
ClassifyDomain(st, domain) ==
    LET int_or_evt == st.cache[domain] IN
    IF int_or_evt.kind = "evt"
    THEN [st EXCEPT !.in_progress[domain] = int_or_evt]
    ELSE IF int_or_evt.kind # "undef"
    THEN [st EXCEPT !.results[domain] = int_or_evt]
    ELSE IF HasDot(domain)
    THEN [st EXCEPT !.results[domain] = ValueError(domain)]
    ELSE [st EXCEPT !.needed[domain] = Event(st.self, domain),
                    !.cache[domain] = Event(st.self, domain)]

RECURSIVE ClassifyDomains(_, _, _)
ClassifyDomains(st, domains, i) ==
    IF i > Len(domains) THEN st
    ELSE ClassifyDomains(ClassifyDomain(st, domains[i]), domains, i + 1)

\* _async_mount_config_dir (the sys.path insertion is not modelled)
async_mount_config_dir == config.config_dir

\* _lookup_path: the packages of the legacy lookup.
lookup_path ==
    IF config.safe_mode THEN <<PACKAGE_BUILTIN>>
    ELSE <<PACKAGE_CUSTOM_COMPONENTS, PACKAGE_BUILTIN>>

\* Mutant of Start: the registry is created and the domains are marked
\* whether or not the config directory could be mounted.
StartUnmounted(h, k0, domains) ==
    LET k == [k0 EXCEPT !.domains = domains]
        cache0 == IF h.integrations.kind = "none" THEN EmptyDict
                  ELSE h.integrations.map
        st == ClassifyDomains([cache |-> cache0,
                               results |-> EmptyDict,
                               needed |-> EmptyDict,
                               in_progress |-> EmptyDict,
                               self |-> k.self], domains, 1)
        h2 == [h EXCEPT !.integrations = [kind |-> "dict", map |-> st.cache]]
        k2 == [k EXCEPT !.results = st.results, !.needed = st.needed,
                        !.owned = st.needed,
                        !.in_progress = st.in_progress]
    IN IF Keys(st.in_progress) # {}
       THEN [h |-> h2, k |-> [k2 EXCEPT !.pc = "gather"]]
       ELSE CustomPhase(h2, k2)

\* Lines 736-756: the call up to its first await.
Start(h, k0, domains) ==
    LET k == [k0 EXCEPT !.domains = domains] IN
    IF h.integrations.kind = "none" /\ ~async_mount_config_dir
    THEN Done(h, [k EXCEPT !.results =
                    [d \in Domains |->
                        IF \E i \in 1..Len(domains) : domains[i] = d
                        THEN IntegrationNotFound(d) ELSE Undef]])
    ELSE LET cache0 == IF h.integrations.kind = "none" THEN EmptyDict
                       ELSE h.integrations.map
             st == ClassifyDomains([cache |-> cache0,
                                    results |-> EmptyDict,
                                    needed |-> EmptyDict,
                                    in_progress |-> EmptyDict,
                                    self |-> k.self], domains, 1)
             h2 == [h EXCEPT !.integrations = [kind |-> "dict", map |-> st.cache]]
             k2 == [k EXCEPT !.results = st.results, !.needed = st.needed,
                             !.owned = st.needed,
                             !.in_progress = st.in_progress]
         IN IF Keys(st.in_progress) # {}
            THEN [h |-> h2, k |-> [k2 EXCEPT !.pc = "gather"]]
            ELSE CustomPhase(h2, k2)

\* ------------------------------------------------------------------------
\* Integration.resolve_dependencies and _async_component_dependencies, as
\* stretches between awaits on the heap h and the frame k of the task.
\* The only await is the one of async_get_integration; a call that the
\* registry answers without suspending continues in the same stretch.
\* ------------------------------------------------------------------------

\* Mutant of CircularDependency: the two domains are stored the wrong way
\* round.
CircularDependencySwapped(from_domain, to_domain) ==
    [kind |-> "circular", from_domain |-> to_domain,
     to_domain |-> from_domain, domain |-> <<>>]

\* CircularDependency(from_domain, to_domain) (lines 817-824)
CircularDependency(from_domain, to_domain) ==
    [kind |-> "circular", from_domain |-> from_domain,
     to_domain |-> to_domain, domain |-> <<>>]

\* The exception async_get_integration raises for the value v the registry
\* returned for the domain (line 729): the IntegrationNotFound or ValueError
\* itself, and TypeError for `raise` of a value that is no exception.
Raised(v) ==
    [kind |-> IF v.kind \in {"notfound", "valueerror"} THEN v.kind
              ELSE "typeerror",
     from_domain |-> <<>>, to_domain |-> <<>>, domain |-> v.domain]

\* self._all_dependencies_resolved of the Integration of domain (lines
\* 491-496: True from the start when the manifest lists no dependencies).
AllDependenciesResolved(h, domain) ==
    IF manifestData[domain].dependencies = <<>> THEN "True"
    ELSE h.resolution[domain].resolved

\* self._all_dependencies of the Integration of domain.
AllDependencies(h, domain) ==
    IF manifestData[domain].dependencies = <<>> THEN [kind |-> "set", set |-> {}]
    ELSE h.resolution[domain].all

\* Integration.all_dependencies (lines 614-620): the set, or RuntimeError.
all_dependencies(h, domain) ==
    IF AllDependencies(h, domain) = None
    THEN [kind |-> "runtimeerror", set |-> {}]
    ELSE AllDependencies(h, domain)

\* Integration.all_dependencies_resolved (lines 622-625)
all_dependencies_resolved(h, domain) ==
    AllDependenciesResolved(h, domain) # "None"

\* resolve_dependencies returns (lines 630, 655).
ResolverReturn(h, k, outcome, err) ==
    [h |-> h,
     k |-> [k EXCEPT !.pc = "done", !.res.mode = "end",
                     !.res.outcome = outcome, !.res.err = err]]

\* Lines 639-653: the exception is logged and False is stored.
ResolverFail(h, k, err) ==
    ResolverReturn([h EXCEPT !.resolution[k.res.start].resolved = "False"],
                   k, "False", err)

\* An exception that resolve_dependencies does not catch leaves it.
ResolverRaise(h, k, err) ==
    [h |-> h,
     k |-> [k EXCEPT !.pc = "raised", !.res.mode = "end",
                     !.res.outcome = "raised", !.res.err = err]]

\* The position of the loop of the innermost frame moves to the next
\* dependency.
NextDependency(stack) ==
    [stack EXCEPT ![Len(stack)].i = @ + 1]

RECURSIVE async_component_dependencies(_, _)
RECURSIVE AfterGetIntegration(_, _)

\* A stretch that ended with the return of the async_get_integrations call
\* of a task that resolves dependencies goes on in the caller.
Continue(r) ==
    IF r.k.res.mode \in {"get", "deps"} /\ r.k.pc = "done"
    THEN AfterGetIntegration(r.h, r.k)
    ELSE r

\* async_get_integration(hass, domain) (lines 723-725): a new
\* async_get_integrations call for the one domain.
async_get_integration(h, k, domain) ==
    Continue(Start(h,
                   [IdleTask(k.self) EXCEPT !.res = [k.res EXCEPT !.cur = domain]],
                   <<domain>>))

\* Integration.resolve_dependencies (lines 627-635) on the Integration of
\* k.res.start.
resolve_dependencies(h, k) ==
    LET start == k.res.start
        prior == {task[u].res.outcome : u \in
                    {u \in Tasks : /\ task[u].res.start = start
                                   /\ task[u].res.outcome \in {"True", "False"}}}
        k1 == [k EXCEPT !.res.mode = "deps", !.res.prior = prior]
    IN IF AllDependenciesResolved(h, start) # "None"
       THEN ResolverReturn(h, k1, AllDependenciesResolved(h, start), NoError)
       ELSE async_component_dependencies(h,
                [k1 EXCEPT !.res.loaded = {}, !.res.loading = {start},
                           !.res.stack = <<[domain |-> start, i |-> 1]>>])

\* Mutant of AfterGetIntegration: the after_dependencies of the dependency
\* are not looked at.
AfterGetIntegrationIgnoringAfter(h, k) ==
    LET r == k.res
        int_or_exc == k.results[r.cur]
    IN IF r.mode = "get"
       THEN IF int_or_exc.kind = "int"
            THEN resolve_dependencies(h, k)
            ELSE [h |-> h,
                  k |-> [k EXCEPT !.pc = "raised", !.res.mode = "end",
                                  !.res.err = Raised(int_or_exc)]]
       ELSE IF int_or_exc.kind = "notfound"
       THEN ResolverFail(h, k, Raised(int_or_exc))
       ELSE IF int_or_exc.kind # "int"
       THEN ResolverRaise(h, k, Raised(int_or_exc))
       ELSE IF manifestData[r.cur].dependencies # <<>>
       THEN async_component_dependencies(h,
                [k EXCEPT !.res.loading = @ \cup {r.cur},
                          !.res.stack = Append(NextDependency(@),
                                               [domain |-> r.cur, i |-> 1])])
       ELSE async_component_dependencies(h,
                [k EXCEPT !.res.stack = NextDependency(@)])

\* Lines 726-729 and 976-984: the value the registry returned for k.res.cur.
AfterGetIntegration(h, k) ==
    LET r == k.res
        int_or_exc == k.results[r.cur]
    IN IF r.mode = "get"
       THEN IF int_or_exc.kind = "int"
            THEN resolve_dependencies(h, k)
            ELSE [h |-> h,
                  k |-> [k EXCEPT !.pc = "raised", !.res.mode = "end",
                                  !.res.err = Raised(int_or_exc)]]
       ELSE IF int_or_exc.kind = "notfound"
       THEN ResolverFail(h, k, Raised(int_or_exc))
       ELSE IF int_or_exc.kind # "int"
       THEN ResolverRaise(h, k, Raised(int_or_exc))
       ELSE IF \E i \in 1..Len(manifestData[r.cur].after_dependencies) :
                   manifestData[r.cur].after_dependencies[i] = r.start
       THEN ResolverFail(h, k, CircularDependency(r.start, r.cur))
       ELSE IF manifestData[r.cur].dependencies # <<>>
       THEN async_component_dependencies(h,
                [k EXCEPT !.res.loading = @ \cup {r.cur},
                          !.res.stack = Append(NextDependency(@),
                                               [domain |-> r.cur, i |-> 1])])
       ELSE async_component_dependencies(h,
                [k EXCEPT !.res.stack = NextDependency(@)])

\* Mutant of async_component_dependencies: the start domain is not
\* discarded from the set that is stored.
async_component_dependencies_keeping_start(h, k) ==
    LET r == k.res IN
    IF r.stack = <<>>
    THEN ResolverReturn(
            [h EXCEPT !.resolution[r.start] =
                [resolved |-> "True",
                 all |-> [kind |-> "set", set |-> r.loaded]]],
            k, "True", NoError)
    ELSE LET top == r.stack[Len(r.stack)]
             dependencies == manifestData[top.domain].dependencies
         IN IF top.i > Len(dependencies)
            THEN async_component_dependencies(h,
                    [k EXCEPT !.res.loaded = @ \cup {top.domain},
                              !.res.loading = @ \ {top.domain},
                              !.res.stack = SubSeq(@, 1, Len(@) - 1)])
            ELSE LET dependency_domain == dependencies[top.i] IN
                 IF dependency_domain \in r.loaded
                 THEN async_component_dependencies(h,
                         [k EXCEPT !.res.stack = NextDependency(@)])
                 ELSE IF dependency_domain \in r.loading
                 THEN ResolverFail(h, k,
                         CircularDependency(top.domain, dependency_domain))
                 ELSE async_get_integration(h,
                         [k EXCEPT !.res.loaded = @ \cup {dependency_domain},
                                   !.res.fetched = @ \cup {dependency_domain}],
                         dependency_domain)

\* _async_component_dependencies (lines 960-989) from the position of the
\* innermost frame to the next await; with no frame left, lines 636-638
\* and 655 of resolve_dependencies.
async_component_dependencies(h, k) ==
    LET r == k.res IN
    IF r.stack = <<>>
    THEN ResolverReturn(
            [h EXCEPT !.resolution[r.start] =
                [resolved |-> "True",
                 all |-> [kind |-> "set", set |-> r.loaded \ {r.start}]]],
            k, "True", NoError)
    ELSE LET top == r.stack[Len(r.stack)]
             dependencies == manifestData[top.domain].dependencies
         IN IF top.i > Len(dependencies)
            THEN async_component_dependencies(h,
                    [k EXCEPT !.res.loaded = @ \cup {top.domain},
                              !.res.loading = @ \ {top.domain},
                              !.res.stack = SubSeq(@, 1, Len(@) - 1)])
            ELSE LET dependency_domain == dependencies[top.i] IN
                 IF dependency_domain \in r.loaded
                 THEN async_component_dependencies(h,
                         [k EXCEPT !.res.stack = NextDependency(@)])
                 ELSE IF dependency_domain \in r.loading
                 THEN ResolverFail(h, k,
                         CircularDependency(top.domain, dependency_domain))
                 ELSE async_get_integration(h,
                         [k EXCEPT !.res.loaded = @ \cup {dependency_domain},
                                   !.res.fetched = @ \cup {dependency_domain}],
                         dependency_domain)

\* ------------------------------------------------------------------------
\* Actions
\* ------------------------------------------------------------------------

\* A dict that async_get_zeroconf returned, read while the module-level
\* ZEROCONF is table: ZEROCONF.copy() (line 292) is shallow, so under every
\* key of ZEROCONF the dict holds the list of the table itself.
SharedLists(out, table) ==
    [typ \in DOMAIN out |->
        IF typ \in DOMAIN table THEN table[typ] ELSE out[typ]]

\* A coroutine step of task t that ends in heap r.h and frame r.k.  The
\* dicts earlier async_get_zeroconf calls returned follow the lists they
\* share with ZEROCONF.
Commit(t, r) ==
    LET q == Continue(r) IN
    /\ integrations' = q.h.integrations
    /\ custom' = q.h.custom
    /\ evset' = q.h.evset
    /\ resolution' = q.h.resolution
    /\ generated' = q.h.generated
    /\ manifestData' = q.h.manifestData
    /\ task' = [u \in Tasks |->
                  IF u = t THEN q.k
                  ELSE IF task[u].disc.protocol = "zeroconf"
                  THEN [task[u] EXCEPT !.disc.out =
                           SharedLists(@, q.h.generated.ZEROCONF)]
                  ELSE task[u]]
    /\ UNCHANGED <<config, customRoot, customFS, builtinFS, edits, components>>

\* Mutant of WorkerStep: the worker thread stores what it resolved in the
\* registry itself.
WorkerStepCommitting(t, job, seen) ==
    /\ task' = [task EXCEPT ![t].job = job, ![t].seen = seen]
    /\ integrations' =
          IF integrations.kind = "dict"
          THEN [integrations EXCEPT !.map =
                  [d \in Domains |->
                      IF job.ints[d].kind = "int" THEN job.ints[d] ELSE @[d]]]
          ELSE integrations
    /\ UNCHANGED <<config, customRoot, customFS, builtinFS,
                   custom, evset, edits, components, manifestData, resolution,
                   generated>>

\* A step of a worker thread for task t's job: only the job changes.
WorkerStep(t, job, seen) ==
    /\ task' = [task EXCEPT ![t].job = job, ![t].seen = seen]
    /\ UNCHANGED <<config, customRoot, customFS, builtinFS, integrations,
                   custom, evset, edits, components, manifestData, resolution,
                   generated>>

\* Calls are numbered in the order they are issued: t is the next caller.
NextCaller(t) ==
    /\ task[t].pc = "idle"
    /\ \A i \in 1..Len(TaskOrder) :
          TaskOrder[i] = t => \A j \in 1..(i - 1) : task[TaskOrder[j]].pc # "idle"

\* Task t calls async_get_integrations with one of the given iterables.
CallWith(t, requests) ==
    /\ NextCaller(t)
    /\ \E domains \in requests :
          Commit(t, Start(Heap, [task[t] EXCEPT !.manifests = builtinFS], domains))

Call(t) == CallWith(t, Requests)

\* The gather of line 756 completes once every awaited event is set.
GatherResume(t) ==
    /\ task[t].pc = "gather"
    /\ \A d \in Keys(task[t].in_progress) : task[t].in_progress[d] \in evset
    /\ Commit(t, AfterGather(Heap, task[t]))

\* Line 218 resumes once the custom-components event is set; line 219.
CustomWaitResume(t) ==
    /\ task[t].pc = "custom_wait"
    /\ task[t].cevt \in evset
    /\ Commit(t, CustomComponentsReturn(Heap, task[t], custom.map))

\* A worker runs get_sub_directories (lines 178-185).
RunSubDirs(t) ==
    /\ task[t].pc = "scan_dirs"
    /\ task[t].job.state = "queued"
    /\ \E is_dir \in IsDir(customFS) :
          WorkerStep(t,
             IF customRoot = "unreadable"
             THEN [task[t].job EXCEPT !.state = "raised"]
             ELSE [task[t].job EXCEPT !.state = "returned",
                                      !.names = get_sub_directories(customFS, is_dir)],
             task[t].seen)

\* Line 187 resumes: the exception of the job propagates out of the call,
\* or lines 191-196 submit the second job.
ResumeSubDirs(t) ==
    /\ task[t].pc = "scan_dirs"
    /\ task[t].job.state \in {"returned", "raised"}
    /\ task' = [task EXCEPT ![t] =
                  IF task[t].job.state = "raised"
                  THEN [@ EXCEPT !.pc = "raised", !.job = NoJob]
                  ELSE [@ EXCEPT !.pc = "scan_resolve",
                                 !.io = @ \cup {"custom_resolve"},
                                 !.job = Submit(task[t].job.names)]]
    /\ UNCHANGED <<config, customRoot, customFS, builtinFS, integrations,
                   custom, evset, edits, components, manifestData, resolution,
                   generated>>

\* A worker runs _resolve_integrations_from_root on the custom root.
RunScanResolve(t) ==
    /\ task[t].pc = "scan_resolve"
    /\ task[t].job.state = "queued"
    /\ WorkerStep(t,
         [task[t].job EXCEPT
            !.state = "returned",
            !.ints = resolve_integrations_from_root(
                        PACKAGE_CUSTOM_COMPONENTS, customFS, task[t].job.names, t)],
         task[t].seen)

\* Lines 197-201 and 213-215, then the caller's lines 771-786.
ResumeScanResolve(t) ==
    /\ task[t].pc = "scan_resolve"
    /\ task[t].job.state = "returned"
    /\ LET reg == task[t].job.ints
           h == [Heap EXCEPT !.custom = [kind |-> "reg", map |-> reg],
                             !.evset = @ \cup {task[t].cevt}]
       IN Commit(t, CustomComponentsReturn(h, task[t], reg))

\* A worker runs _resolve_integrations_from_root on the built-in root.
RunBuiltin(t) ==
    /\ task[t].pc = "builtin_job"
    /\ task[t].job.state = "queued"
    /\ WorkerStep(t,
         [task[t].job EXCEPT
            !.state = "returned",
            !.ints = resolve_integrations_from_root(
                        PACKAGE_BUILTIN, builtinFS, task[t].job.names, t)],
         [d \in Domains |->
            IF d \in task[t].job.names THEN builtinFS[d] ELSE task[t].seen[d]])

\* Line 784 resumes; lines 787-801.
ResumeBuiltin(t) ==
    /\ task[t].pc = "builtin_job"
    /\ task[t].job.state = "returned"
    /\ Commit(t, AfterBuiltin(Heap, task[t], task[t].job.ints))

\* The user corrects their setup: a built-in manifest that was missing or
\* broken is replaced by a complete one.  (A probe of a domain is repeated
\* only after it failed, so the reads of one manifest the process can make
\* are failures followed by at most one success, and every such sequence
\* is reached this way.  The custom root is read once per process, so a
\* change to it is another initial root.)
EditManifest ==
    /\ edits < MaxEdits
    /\ edits' = edits + 1
    /\ \E d \in PlainDomains :
          /\ builtinFS[d] # "valid"
          /\ builtinFS' = [builtinFS EXCEPT ![d] = "valid"]
    /\ UNCHANGED <<config, customRoot, customFS, integrations, custom, evset,
                   task, components, manifestData, resolution,
                   generated>>

\* The Integration objects of domain d that a caller can hold: the one the
\* registry maps d to and the one async_get_custom_components returned.
HeldIntegration(d) ==
    \/ integrations.kind = "dict" /\ integrations.map[d].kind = "int"
    \/ custom.kind = "reg" /\ custom.map[d].kind = "int"

\* hass.data.setdefault(DATA_COMPONENTS, {}) followed by `cache[key] =
\* importlib.import_module(...)` (lines 659-664, 677-683): the module cache
\* afterwards; the import returned a module or raised.
StoreModule(key, imported) ==
    LET cache == IF components = None THEN {} ELSE components.keys
    IN [kind |-> "dict",
        keys |-> IF imported THEN cache \cup {key} ELSE cache]

\* Integration.get_component (lines 657-673) on an Integration of d, called
\* on the event loop: the module cache is created if need be and the
\* module is stored in it unless its import raises.
get_component(d) ==
    /\ HeldIntegration(d)
    /\ \E imported \in BOOLEAN :
          /\ components' = StoreModule(d, imported)
          /\ components' # components
    /\ UNCHANGED <<config, customRoot, customFS, builtinFS, integrations,
                   custom, evset, task, edits, manifestData, resolution,
                   generated>>

\* The platforms a caller asks an Integration for.
PlatformNames == {<<"light">>}

\* full_name = f"{self.domain}.{platform_name}" (line 678)
FullName(d, platform_name) == d \o <<".">> \o platform_name

\* Integration.get_platform (lines 675-696) on an Integration of d: the
\* platform module is stored under "domain.platform".
get_platform(d) ==
    /\ HeldIntegration(d)
    /\ \E platform_name \in PlatformNames, imported \in BOOLEAN :
          /\ components' = StoreModule(FullName(d, platform_name), imported)
          /\ components' # components
    /\ UNCHANGED <<config, customRoot, customFS, builtinFS, integrations,
                   custom, evset, task, edits, manifestData, resolution,
                   generated>>

\* _load_file(hass, comp_or_platform, base_paths) (lines 827-880): the
\* module cache afterwards.  found is the position in base_paths of the
\* first package that holds an importable module of that name, 0 for none.
load_file(comp_or_platform, base_paths, found) ==
    IF components # None /\ comp_or_platform \in components.keys
    THEN components
    ELSE IF components = None /\ ~async_mount_config_dir
    THEN components
    ELSE StoreModule(comp_or_platform, found \in 1..Len(base_paths))

\* Components.__getattr__ (lines 909-925): hass.components.<comp_name>.
ComponentsGetattr(comp_name) ==
    /\ IF integrations.kind = "dict" /\ integrations.map[comp_name].kind = "int"
       THEN \E imported \in BOOLEAN :
               components' = StoreModule(comp_name, imported)
       ELSE \E found \in 0..Len(lookup_path) :
               components' = load_file(comp_name, lookup_path, found)
    /\ components' # components
    /\ UNCHANGED <<config, customRoot, customFS, builtinFS, integrations,
                   custom, evset, task, edits, manifestData, resolution,
                   generated>>

Next ==
    \/ \E t \in Tasks : Call(t)
    \/ \E t \in Tasks : GatherResume(t)
    \/ \E t \in Tasks : CustomWaitResume(t)
    \/ \E t \in Tasks : RunSubDirs(t)
    \/ \E t \in Tasks : ResumeSubDirs(t)
    \/ \E t \in Tasks : RunScanResolve(t)
    \/ \E t \in Tasks : ResumeScanResolve(t)
    \/ \E t \in Tasks : RunBuiltin(t)
    \/ \E t \in Tasks : ResumeBuiltin(t)
    \/ EditManifest

Spec == Init /\ [][Next]_vars

\* Five tasks that each request a domain of their own, on a host whose
\* built-in root holds all five.
FanOutDomains == <<DomA, DomB, DomC, DomD, DomE>>

InitFanOut ==
    /\ config = [config_dir |-> TRUE, safe_mode |-> FALSE]
    /\ customRoot \in {"ok", "missing"}
    /\ customFS = [d \in {FanOutDomains[i] : i \in 1..Len(FanOutDomains)} |->
                     IF d = DomE THEN "valid" ELSE "none"]
    /\ builtinFS = [d \in {FanOutDomains[i] : i \in 1..Len(FanOutDomains)} |->
                      "valid"]
    /\ integrations = None
    /\ custom = None
    /\ evset = {}
    /\ task = [t \in {TaskOrder[i] : i \in 1..Len(TaskOrder)} |-> IdleTask(t)]
    /\ edits = 0
    /\ components = None
    /\ manifestData = [d \in DOMAIN builtinFS |-> NoDependencies]
    /\ resolution = [d \in DOMAIN builtinFS |-> Unresolved]
    /\ generated = NoTables

FanOutCall(t) ==
    \E i \in 1..Len(TaskOrder) :
        TaskOrder[i] = t /\ CallWith(t, {<<FanOutDomains[i]>>})

NextFanOut ==
    \/ \E t \in Tasks : FanOutCall(t)
    \/ \E t \in Tasks : CustomWaitResume(t)
    \/ \E t \in Tasks : RunSubDirs(t)
    \/ \E t \in Tasks : ResumeSubDirs(t)
    \/ \E t \in Tasks : RunScanResolve(t)
    \/ \E t \in Tasks : ResumeScanResolve(t)
    \/ \E t \in Tasks : RunBuiltin(t)
    \/ \E t \in Tasks : ResumeBuiltin(t)

SpecFanOut == InitFanOut /\ [][NextFanOut]_vars

\* The manifests of three plugins: a cycle of hard dependencies; a soft
\* dependency on the plugins that depend on the one declaring it; a diamond;
\* a diamond whose last manifest is missing at first; a dependency with an
\* invalid name; a cycle of hard dependencies between the dependencies of a.
DependencyGraphs ==
    {[manifest |-> (DomA :> [dependencies |-> <<DomB>>, after_dependencies |-> <<>>]
                 @@ DomB :> [dependencies |-> <<DomC>>, after_dependencies |-> <<>>]
                 @@ DomC :> [dependencies |-> <<DomA>>, after_dependencies |-> <<>>]),
      builtin |-> (DomA :> "valid" @@ DomB :> "valid" @@ DomC :> "valid")],
     [manifest |-> (DomA :> [dependencies |-> <<DomB>>, after_dependencies |-> <<>>]
                 @@ DomB :> [dependencies |-> <<DomC>>, after_dependencies |-> <<>>]
                 @@ DomC :> [dependencies |-> <<>>, after_dependencies |-> <<DomA, DomB>>]),
      builtin |-> (DomA :> "valid" @@ DomB :> "valid" @@ DomC :> "valid")],
     [manifest |-> (DomA :> [dependencies |-> <<DomB, DomC>>, after_dependencies |-> <<>>]
                 @@ DomB :> [dependencies |-> <<DomC>>, after_dependencies |-> <<>>]
                 @@ DomC :> NoDependencies),
      builtin |-> (DomA :> "valid" @@ DomB :> "valid" @@ DomC :> "valid")],
     [manifest |-> (DomA :> [dependencies |-> <<DomB, DomC>>, after_dependencies |-> <<>>]
                 @@ DomB :> [dependencies |-> <<DomC>>, after_dependencies |-> <<>>]
                 @@ DomC :> NoDependencies),
      builtin |-> (DomA :> "valid" @@ DomB :> "valid" @@ DomC :> "none")],
     [manifest |-> (DomA :> [dependencies |-> <<DomB>>, after_dependencies |-> <<>>]
                 @@ DomB :> [dependencies |-> <<DomDotted>>, after_dependencies |-> <<>>]
                 @@ DomC :> NoDependencies),
      builtin |-> (DomA :> "valid" @@ DomB :> "valid" @@ DomC :> "valid")],
     [manifest |-> (DomA :> [dependencies |-> <<DomB>>, after_dependencies |-> <<>>]
                 @@ DomB :> [dependencies |-> <<DomC>>, after_dependencies |-> <<>>]
                 @@ DomC :> [dependencies |-> <<DomB>>, after_dependencies |-> <<>>]),
      builtin |-> (DomA :> "valid" @@ DomB :> "valid" @@ DomC :> "valid")],
     [manifest |-> (DomA :> [dependencies |-> <<DomC, DomB>>, after_dependencies |-> <<>>]
                 @@ DomB :> [dependencies |-> <<>>, after_dependencies |-> <<DomA>>]
                 @@ DomC :> NoDependencies),
      builtin |-> (DomA :> "valid" @@ DomB :> "valid" @@ DomC :> "none")]}

\* Three tasks that each fetch a plugin and resolve its dependencies, on a
\* host without custom_components.
InitDeps ==
    /\ config = [config_dir |-> TRUE, safe_mode |-> FALSE]
    /\ customRoot = "missing"
    /\ \E g \in DependencyGraphs :
          /\ builtinFS = g.builtin
          /\ manifestData = g.manifest
    /\ customFS = [d \in DOMAIN builtinFS |-> "none"]
    /\ integrations = None
    /\ custom = None
    /\ evset = {}
    /\ task = [t \in {"t1", "t2", "t3"} |-> IdleTask(t)]
    /\ edits = 0
    /\ components = None
    /\ resolution = [d \in DOMAIN builtinFS |-> Unresolved]
    /\ generated = NoTables

\* Task t awaits async_get_integration(start) and then
\* resolve_dependencies() of the Integration it got.
ResolveCall(t) ==
    /\ NextCaller(t)
    /\ \E start \in PlainDomains :
          Commit(t, Start(Heap,
                          [task[t] EXCEPT
                              !.res = [NoResolver EXCEPT !.mode = "get",
                                                         !.start = start,
                                                         !.cur = start]],
                          <<start>>))

NextDeps ==
    \/ \E t \in Tasks : ResolveCall(t)
    \/ \E t \in Tasks : GatherResume(t)
    \/ \E t \in Tasks : RunBuiltin(t)
    \/ \E t \in Tasks : ResumeBuiltin(t)
    \/ EditManifest

SpecDeps == InitDeps /\ [][NextDeps]_vars

\* The tables of homeassistant.generated as imported: one entry each.
GeneratedTables ==
    [ZEROCONF |-> ("_t1" :> <<("domain" :> DomC)>>),
     DHCP |-> <<("domain" :> DomC @@ "hostname" :> <<"h">>)>>,
     SSDP |-> (DomC :> <<("st" :> <<"s">>)>>),
     BLUETOOTH |-> <<("domain" :> DomC @@ "local_name" :> <<"n">>)>>,
     USB |-> <<("domain" :> DomC @@ "vid" :> <<"1">>)>>,
     HOMEKIT |-> ("M0" :> DomC),
     MQTT |-> (DomC :> <<"t/0">>),
     FLOWS |-> [helper |-> <<DomD>>, integration |-> <<DomC>>],
     APPLICATION_CREDENTIALS |-> <<DomC>>]

\* Matcher dicts of the "zeroconf" list of a manifest: a legacy key; a
\* legacy key next to a properties dict; no legacy key; a legacy key with
\* an empty value; a legacy key that the properties dict holds as well.
MatcherEntries ==
    {("type" :> "_t1" @@ "macaddress" :> <<"A", "b">>),
     ("type" :> "_t1" @@ "model" :> <<"B">>
        @@ "properties" :> ("x" :> <<"A">>)),
     ("type" :> "_t2" @@ "name" :> <<"A", "b">>),
     ("type" :> "_t2" @@ "manufacturer" :> <<>> @@ "name" :> <<"b">>),
     ("type" :> "_t1" @@ "macaddress" :> <<"A">> @@ "manufacturer" :> <<"B", "1">>
        @@ "properties" :> ("macaddress" :> <<"B">>))}

\* The "zeroconf" lists a manifest of the model can have: none, a type
\* name, or one matcher dict.
ZeroconfFragments ==
    {<<>>, <<[kind |-> "str", str |-> "_t1"]>>, <<[kind |-> "str", str |-> "_t2"]>>}
    \cup {<<[kind |-> "dict", dict |-> e]>> : e \in MatcherEntries}

\* What a manifest of the model can hold besides "zeroconf": nothing; an
\* entry for every accessor; keys with empty or default values.
OtherFragments ==
    {[dhcp |-> <<>>, ssdp |-> <<>>, bluetooth |-> <<>>, usb |-> <<>>,
      homekit |-> <<>>, mqtt |-> <<>>, config_flow |-> FALSE,
      dependencies |-> <<>>],
     [dhcp |-> <<("hostname" :> <<"A">>)>>, ssdp |-> <<("st" :> <<"t">>)>>,
      bluetooth |-> <<("local_name" :> <<"A">>)>>,
      usb |-> <<("vid" :> <<"2">> @@ "known_devices" :> <<"k">>)>>,
      homekit |-> ("models" :> <<"M0", "M1">>), mqtt |-> <<"t/1">>,
      config_flow |-> TRUE, integration_type |-> "helper",
      dependencies |-> <<DomCredentials>>],
     [dhcp |-> <<>>, ssdp |-> <<>>, bluetooth |-> <<>>, usb |-> <<>>,
      homekit |-> ("models" :> <<>>), mqtt |-> <<>>, config_flow |-> TRUE,
      dependencies |-> <<>>]}

\* The orders in which a dict can hold the plugins.
Orders ==
    {o \in [1..Cardinality(PlainDomains) -> PlainDomains] :
        \A i, j \in DOMAIN o : o[i] = o[j] => i = j}

\* The accessors that await async_get_custom_components, and that
\* coroutine itself.
Protocols ==
    {"zeroconf", "dhcp", "ssdp", "bluetooth", "usb", "homekit", "mqtt",
     "config_flows", "application_credentials", "custom_components"}

\* The calls a task can make: only async_get_config_flows takes a
\* type_filter.
DiscoveryCalls ==
    {[protocol |-> p, type_filter |-> "None"] : p \in Protocols}
    \cup {[protocol |-> "config_flows", type_filter |-> f] :
             f \in {"helper", "integration"}}

\* Two tasks that each call a discovery accessor, on a host whose
\* custom_components holds up to two plugins.
InitDiscovery ==
    /\ config = [config_dir |-> TRUE, safe_mode |-> FALSE]
    /\ customRoot \in {"ok", "missing"}
    /\ builtinFS = [d \in {DomA, DomB} |-> "none"]
    /\ customFS \in {[d \in {DomA, DomB} |-> "valid"],
                     (DomA :> "valid" @@ DomB :> "none")}
    /\ \E za \in ZeroconfFragments, zb \in {<<>>, <<[kind |-> "str", str |-> "_t1"]>>},
          oa \in OtherFragments :
          manifestData =
              (DomA :> Merge([after_dependencies |-> <<>>, zeroconf |-> za], oa)
            @@ DomB :> [dependencies |-> <<>>, after_dependencies |-> <<>>,
                        zeroconf |-> zb, dhcp |-> oa.dhcp, ssdp |-> <<>>,
                        bluetooth |-> <<>>, usb |-> <<>>,
                        homekit |-> oa.homekit, mqtt |-> <<>>,
                        config_flow |-> oa.config_flow])
    /\ integrations = None
    /\ custom = None
    /\ evset = {}
    /\ task = [t \in {"t1", "t2"} |-> IdleTask(t)]
    /\ edits = 0
    /\ components = None
    /\ resolution = [d \in DOMAIN builtinFS |-> Unresolved]
    /\ generated = GeneratedTables

\* Task t calls a discovery accessor or async_get_custom_components: the
\* stretch up to `await async_get_custom_components(hass)` and, when that
\* does not suspend, the rest of the accessor.  (The custom components
\* dict is built once, so every call walks it in the same order.)
DiscoveryCall(t) ==
    /\ NextCaller(t)
    /\ \E call \in DiscoveryCalls, order \in Orders :
          /\ \A u \in Tasks :
                task[u].disc.protocol # "none" => order = task[u].disc.order
          /\ Commit(t, GetCustomComponents(
                        Heap,
                        [task[t] EXCEPT !.disc = [protocol |-> call.protocol,
                                                  type_filter |-> call.type_filter,
                                                  order |-> order,
                                                  out |-> <<>>]]))

NextDiscovery ==
    \/ \E t \in Tasks : DiscoveryCall(t)
    \/ \E t \in Tasks : CustomWaitResume(t)
    \/ \E t \in Tasks : RunSubDirs(t)
    \/ \E t \in Tasks : ResumeSubDirs(t)
    \/ \E t \in Tasks : RunScanResolve(t)
    \/ \E t \in Tasks : ResumeScanResolve(t)

SpecDiscovery == InitDiscovery /\ [][NextDiscovery]_vars

\* Iterables that name no domain twice.
DistinctRequests == {<<DomA>>, <<DomB>>, <<DomA, DomB>>, <<DomB, DomA>>}

\* Task t calls async_get_integrations with distinct domains.
DistinctCall(t) == CallWith(t, DistinctRequests)

NextLive ==
    \/ \E t \in Tasks : DistinctCall(t)
    \/ \E t \in Tasks : GatherResume(t)
    \/ \E t \in Tasks : CustomWaitResume(t)
    \/ \E t \in Tasks : RunSubDirs(t)
    \/ \E t \in Tasks : ResumeSubDirs(t)
    \/ \E t \in Tasks : RunScanResolve(t)
    \/ \E t \in Tasks : ResumeScanResolve(t)
    \/ \E t \in Tasks : RunBuiltin(t)
    \/ \E t \in Tasks : ResumeBuiltin(t)

\* The executor runs every job it was handed and the event loop resumes
\* every coroutine whose awaitable is done.
Fairness ==
    \A t \in {"t1", "t2", "t3"} :
        /\ WF_vars(GatherResume(t))
        /\ WF_vars(CustomWaitResume(t))
        /\ WF_vars(RunSubDirs(t))
        /\ WF_vars(ResumeSubDirs(t))
        /\ WF_vars(RunScanResolve(t))
        /\ WF_vars(ResumeScanResolve(t))
        /\ WF_vars(RunBuiltin(t))
        /\ WF_vars(ResumeBuiltin(t))

\* Concurrent calls over overlapping sets of distinct domains, with every
\* job run and every ready coroutine resumed.
SpecLive == Init /\ [][NextLive]_vars /\ Fairness

\* The registry together with the module cache, on a host whose custom
\* root is scanned: two tasks that call async_get_integrations, and callers
\* of get_component, get_platform and hass.components on the event loop.
InitModules ==
    /\ config = [config_dir |-> TRUE, safe_mode |-> FALSE]
    /\ customRoot = "ok"
    /\ \E r \in InitialRoots : customFS = r.custom /\ builtinFS = r.builtin
    /\ integrations = None
    /\ custom = None
    /\ evset = {}
    /\ task = [t \in {"t1", "t2"} |-> IdleTask(t)]
    /\ edits = 0
    /\ components = None
    /\ manifestData = [d \in DOMAIN builtinFS |-> NoDependencies]
    /\ resolution = [d \in DOMAIN builtinFS |-> Unresolved]
    /\ generated = NoTables

NextModules ==
    \/ Next
    \/ \E d \in Domains : get_component(d)
    \/ \E d \in Domains : get_platform(d)
    \/ \E comp_name \in Domains : ComponentsGetattr(comp_name)

SpecModules == InitModules /\ [][NextModules]_vars

\* ------------------------------------------------------------------------
\* Vocabulary of the properties
\* ------------------------------------------------------------------------

\* cache.get(d, _UNDEF) on hass.data[DATA_INTEGRATIONS] (Undef before the
\* cache exists).
Cache(d) == IF integrations.kind = "dict" THEN integrations.map[d] ELSE Undef

Requested(t, d) == \E i \in 1..Len(task[t].domains) : task[t].domains[i] = d

Returned(t) == task[t].pc = "done"

\* The call of t1 was issued before the call of t2.
IssuedBefore(t1, t2) ==
    \E i \in 1..Len(TaskOrder), j \in 1..Len(TaskOrder) :
        TaskOrder[i] = t1 /\ TaskOrder[j] = t2 /\ i < j /\ task[t2].pc # "idle"

\* Task t created the pending marker of d (line 753).
Owns(t, d) == task[t].owned[d].kind = "evt"

\* Task t found the pending marker of d and waited on it (line 747).
Waited(t, d) == task[t].in_progress[d].kind = "evt"

\* Task t has resumed from the gather of line 756 and re-read the cache.
Released(t) == task[t].pc \notin {"idle", "gather"}

\* The calls coalesced on marker e of domain d: the one that created it and
\* those issued while it was pending.
Group(d, e) ==
    {t \in Tasks : task[t].owned[d] = e \/ task[t].in_progress[d] = e}

\* The call of t is suspended at an await.
InFlight(t) ==
    task[t].pc \in {"gather", "custom_wait", "scan_dirs", "scan_resolve", "builtin_job"}

\* Manifests the built-in root loads (no version gate there).
BuiltinLoadable == {"noversion", "badversion", "valid"}

\* ------------------------------------------------------------------------
\* C1 .. C10
\* ------------------------------------------------------------------------

\* C1: the calls coalesced on one pending marker of d all return the same
\* Integration for d or all return a failure for d, and the built-in root
\* is probed for d at most once for them.
C1_CoalescedCallsAgree ==
    \A d \in PlainDomains, o \in Tasks :
        Owns(o, d) =>
            LET group == Group(d, task[o].owned[d]) IN
            /\ \A t1 \in group, t2 \in group :
                  (Returned(t1) /\ Returned(t2)) =>
                      LET r1 == task[t1].results[d]
                          r2 == task[t2].results[d]
                      IN \/ r1.kind = "int" /\ r2 = r1
                         \/ r1.kind = "notfound" /\ r2.kind = "notfound"
            /\ Cardinality({t \in group : d \in task[t].probed}) <= 1

\* C2: a caller that waited on the pending marker of d and was released
\* after that resolution failed gets IntegrationNotFound for d.
C2_ReleasedWaiterGetsNotFound ==
    \A w \in Tasks, o \in Tasks, d \in PlainDomains :
        ( /\ Waited(w, d) /\ Released(w)
          /\ task[o].owned[d] = task[w].in_progress[d]
          /\ Returned(o) /\ task[o].results[d].kind = "notfound" )
        => task[w].results[d].kind = "notfound"

\* C3: once the registry holds a resolved Integration for d, every later
\* state holds that same Integration for d.
C3_ResolvedEntriesAreFinal ==
    [][\A d \in Domains :
          Cache(d).kind = "int" =>
              /\ integrations'.kind = "dict"
              /\ integrations'.map[d] = Cache(d)]_vars

\* C3 witness: a call answered from the cache (line 749) with the
\* Integration an earlier call resolved, after a further resolution ran.
C3_Witness ==
    \E t \in Tasks, o \in Tasks, d \in PlainDomains :
        /\ Returned(t) /\ Requested(t, d) /\ ~Owns(t, d) /\ ~Waited(t, d)
        /\ Cache(d).kind = "int" /\ task[t].results[d] = Cache(d)
        /\ Returned(o) /\ Owns(o, d) /\ task[o].results[d] = Cache(d)
        /\ \E u \in Tasks \ {t, o} : Returned(u) /\ task[u].probed # {}

\* C4 as stated: once a call has reported IntegrationNotFound for d from its
\* own failed probe, a later call for d, issued and returning while the
\* built-in root holds a complete manifest of d, does not get
\* IntegrationNotFound for d.  (The later call is one whose marker of d is
\* another than the failed one, so that it was issued after that one was
\* removed.)
C4_LaterCallGetsIntegration ==
    \A t1 \in Tasks, t2 \in Tasks, d \in PlainDomains :
        ( /\ Returned(t1) /\ Owns(t1, d) /\ task[t1].results[d].kind = "notfound"
          /\ Returned(t2) /\ Requested(t2, d)
          /\ IssuedBefore(t1, t2)
          /\ task[t2].in_progress[d] # task[t1].owned[d]
          /\ task[t2].manifests[d] = "valid" /\ builtinFS[d] = "valid" )
        => task[t2].results[d].kind # "notfound"

\* C4 amended: a step that reports IntegrationNotFound for d after a failed
\* resolution leaves the registry without an entry for d; a call that finds
\* no entry for d creates a new marker for it; a call that returned
\* after resolving d itself either took d from the custom components or
\* probed the built-in root and returned the Integration exactly if the
\* manifest it read there loads; and a call that found d pending runs no
\* probe for d.
C4_NegativeResultsNotCached ==
    /\ [][\A t \in Tasks, d \in PlainDomains :
            /\ ( /\ task[t].results[d].kind # "notfound"
                 /\ task'[t].results[d].kind = "notfound"
                 /\ integrations'.kind = "dict" )
               => integrations'.map[d].kind = "undef"
            /\ ( /\ task[t].pc = "idle" /\ task'[t].pc # "idle"
                 /\ \E i \in 1..Len(task'[t].domains) : task'[t].domains[i] = d
                 /\ Cache(d).kind = "undef"
                 /\ integrations'.kind = "dict" )
               => task'[t].owned[d].kind = "evt"]_vars
    /\ [](\A t \in Tasks, d \in PlainDomains :
            (Returned(t) /\ Owns(t, d) /\ custom.map[d].kind = "undef") =>
                /\ d \in task[t].probed
                /\ task[t].seen[d] \in BuiltinLoadable
                      => /\ task[t].results[d].kind = "int"
                         /\ task[t].results[d].root = PACKAGE_BUILTIN
                /\ task[t].seen[d] \notin BuiltinLoadable
                      => task[t].results[d].kind = "notfound")
    /\ [](\A t \in Tasks, d \in PlainDomains :
            Waited(t, d) => d \notin task[t].probed)

\* C4 witness: a call got IntegrationNotFound for d from its own probe, the
\* manifest was added, and a later call probed again and got the Integration.
C4_Witness ==
    \E t1 \in Tasks, t2 \in Tasks, d \in PlainDomains :
        /\ Returned(t1) /\ Owns(t1, d) /\ d \in task[t1].probed
        /\ task[t1].results[d].kind = "notfound"
        /\ Returned(t2) /\ Owns(t2, d) /\ d \in task[t2].probed
        /\ IssuedBefore(t1, t2)
        /\ task[t2].results[d].kind = "int"
        /\ Cache(d) = task[t2].results[d]

\* C5: a call that has not returned and still needs d holds the marker the
\* registry has for d (it was written in the step that saw d absent), so at
\* most one such call needs any given domain.
C5_OneOwnerPerDomain ==
    \A d \in PlainDomains, t1 \in Tasks :
        (~Returned(t1) /\ task[t1].needed[d].kind = "evt") =>
            /\ Cache(d) = task[t1].needed[d]
            /\ task[t1].needed[d] \notin evset
            /\ \A t2 \in Tasks \ {t1} :
                  ~(~Returned(t2) /\ task[t2].needed[d].kind = "evt")

\* C5 witness: one call resolves d while two others wait on its marker.
C5_Witness ==
    \E d \in PlainDomains, o \in Tasks :
        /\ InFlight(o) /\ task[o].needed[d].kind = "evt"
        /\ Cardinality({w \in Tasks \ {o} :
              task[w].pc = "gather" /\ task[w].in_progress[d] = task[o].needed[d]}) = 2

\* C6: when the resolution that created a marker has ended (the call
\* returned or an exception left it), the marker's event is set and the
\* registry no longer holds the marker.
C6_MarkersReleased ==
    \A t \in Tasks, d \in PlainDomains :
        (task[t].pc \in {"done", "raised"} /\ Owns(t, d)) =>
            /\ task[t].owned[d] \in evset
            /\ Cache(d) # task[t].owned[d]

\* C7 as stated: a dotted domain gets ValueError in every state of the host,
\* and a call for dotted domains alone submits no executor job.
C7_DottedIsValueError ==
    \A t \in Tasks :
        /\ \A d \in Domains :
              (HasDot(d) /\ Requested(t, d) /\ task[t].pc # "idle") =>
                  task[t].results[d].kind = "valueerror"
        /\ (\A i \in 1..Len(task[t].domains) : HasDot(task[t].domains[i])) =>
              task[t].io = {} /\ ~InFlight(t)

\* C7 amended: a dotted domain gets ValueError when the config directory is
\* set or the registry exists, and IntegrationNotFound when neither is so;
\* in both cases a call for dotted domains alone submits no executor job.
C7_DottedIsRejected ==
    \A t \in Tasks :
        /\ \A d \in Domains :
              (HasDot(d) /\ Requested(t, d) /\ task[t].pc # "idle") =>
                  task[t].results[d].kind =
                      IF config.config_dir \/ integrations.kind = "dict"
                      THEN "valueerror" ELSE "notfound"
        /\ (\A i \in 1..Len(task[t].domains) : HasDot(task[t].domains[i])) =>
              task[t].io = {} /\ ~InFlight(t)

\* C7 witness: a call for a dotted domain alone returned ValueError while
\* another call had a probe in flight.
C7_Witness ==
    \E t \in Tasks, u \in Tasks :
        /\ Returned(t) /\ task[t].domains = <<DomDotted>>
        /\ task[t].results[DomDotted].kind = "valueerror"
        /\ task[t].io = {}
        /\ task[u].pc = "builtin_job"

\* C8 (with the custom root readable): a domain with no manifest on either
\* root gets IntegrationNotFound from every call that returns.
C8_AbsentDomainNotFound ==
    \A t \in Tasks, d \in PlainDomains :
        ( /\ edits = 0 /\ customRoot = "ok"
          /\ customFS[d] = "none" /\ builtinFS[d] = "none"
          /\ Requested(t, d) /\ Returned(t) )
        => task[t].results[d].kind = "notfound"

\* The custom root is scanned in this host.
CustomScanned == ~config.safe_mode /\ customRoot = "ok"

\* With the roots as they are, d resolves on one of them.
Loadable(d) ==
    \/ CustomScanned /\ customFS[d] = "valid"
    \/ builtinFS[d] \in BuiltinLoadable

\* C9: with the config directory set and the roots unchanged, a call for
\* several domains that returned gives each of them its own outcome: a domain whose
\* manifest is missing, malformed or raises gets IntegrationNotFound and a
\* domain with a manifest that loads gets the Integration the registry
\* holds, its marker released.
C9_BatchIsolatesFailures ==
    \A t \in Tasks, d \in PlainDomains :
        ( /\ edits = 0 /\ config.config_dir
          /\ Returned(t) /\ Requested(t, d)
          /\ \E e \in PlainDomains \ {d} : Requested(t, e) ) =>
            IF Loadable(d)
            THEN /\ task[t].results[d].kind = "int"
                 /\ Cache(d) = task[t].results[d]
                 /\ Owns(t, d) => task[t].owned[d] \in evset
            ELSE task[t].results[d] = IntegrationNotFound(d)

\* C10: a domain the call needs and the custom components hold is returned
\* and cached as the custom Integration, its marker is released, and the
\* built-in root is probed only for domains the custom components lack.
C10_CustomWins ==
    \A t \in Tasks, d \in PlainDomains :
        /\ ( /\ task[t].pc \in {"builtin_job", "done"} /\ Owns(t, d)
             /\ custom.kind = "reg" /\ custom.map[d].kind = "int" )
           => /\ task[t].results[d] = custom.map[d]
              /\ task[t].results[d].root = PACKAGE_CUSTOM_COMPONENTS
              /\ Cache(d) = custom.map[d]
              /\ task[t].owned[d] \in evset
              /\ d \notin task[t].probed
        /\ d \in task[t].probed =>
              custom.kind = "reg" /\ custom.map[d].kind = "undef"

\* C10 witness: both roots hold a complete manifest of d; a call for d and
\* another domain returned the custom one and probed the other domain only.
C10_Witness ==
    \E t \in Tasks, d \in PlainDomains :
        /\ Returned(t) /\ Owns(t, d)
        /\ task[t].results[d].root = PACKAGE_CUSTOM_COMPONENTS
        /\ builtinFS[d] = "valid" /\ customFS[d] = "valid"
        /\ task[t].probed = PlainDomains \ {d}

\* ------------------------------------------------------------------------
\* C11 .. C16
\* ------------------------------------------------------------------------

\* The executor jobs of the custom-root scan.
ScanJobs == {"custom_dirs", "custom_resolve"}

\* Task t ran the custom-root scan (lines 209-215).
Scanned(t) == "custom_dirs" \in task[t].io

\* C11: the custom root is scanned by at most one call; a call that found
\* the scan in flight waits on the event of that scan; every mapping
\* async_get_custom_components returned is the cached one; no call but the
\* scanning one submits a scan job; and once a mapping is cached it is never
\* replaced.
C11_CustomScanOnce ==
    /\ [](/\ Cardinality({t \in Tasks : Scanned(t)}) <= 1
          /\ \A t \in Tasks :
                /\ task[t].pc = "custom_wait" =>
                      /\ task[t].cevt.kind = "evt"
                      /\ \E o \in Tasks \ {t} :
                            Scanned(o) /\ task[t].cevt = task[o].cevt
                      /\ \/ custom = [kind |-> "evt", evt |-> task[t].cevt]
                         \/ custom.kind = "reg" /\ task[t].cevt \in evset
                /\ task[t].reg # None => task[t].reg = custom
                /\ (task[t].io \cap ScanJobs # {}) =>
                      /\ Scanned(t)
                      /\ task[t].cevt = Event(t, <<>>))
    /\ [][custom.kind = "reg" => custom' = custom]_vars

\* C11 witness: one call scanned, one waited for that scan, one came after
\* the mapping was cached, and all three got the mapping that is cached.
C11_Witness ==
    \E o \in Tasks, w \in Tasks, l \in Tasks :
        /\ Scanned(o) /\ Returned(o)
        /\ Returned(w) /\ task[w].cevt = task[o].cevt /\ w # o
        /\ Returned(l) /\ task[l].cevt = Undef /\ task[l].reg # None
        /\ task[l].io \cap ScanJobs = {}
        /\ custom.kind = "reg" /\ Keys(custom.map) # {}
        /\ task[o].reg = custom /\ task[w].reg = custom /\ task[l].reg = custom

\* C12: in safe mode no scan job is submitted, the custom enumeration is
\* the empty mapping, every Integration a call returns or the registry
\* holds comes from the built-in root, and the legacy lookup path holds the
\* built-in package only.
C12_SafeModeBuiltinOnly ==
    config.safe_mode =>
        /\ custom.kind # "evt"
        /\ custom.kind = "reg" => custom.map = EmptyDict
        /\ lookup_path = <<PACKAGE_BUILTIN>>
        /\ \A t \in Tasks :
              /\ task[t].io \cap ScanJobs = {}
              /\ task[t].reg # None => task[t].reg.map = EmptyDict
              /\ \A d \in Domains :
                    task[t].results[d].kind = "int" =>
                        task[t].results[d].root = PACKAGE_BUILTIN
        /\ \A d \in Domains :
              Cache(d).kind = "int" => Cache(d).root = PACKAGE_BUILTIN

\* C12 witness: in safe mode, with a complete manifest of d on both roots,
\* a call returned the built-in Integration of d.
C12_Witness ==
    \E t \in Tasks, d \in PlainDomains :
        /\ config.safe_mode
        /\ customFS[d] = "valid" /\ builtinFS[d] = "valid"
        /\ Returned(t) /\ Owns(t, d)
        /\ task[t].reg = [kind |-> "reg", map |-> EmptyDict]
        /\ task[t].results[d].kind = "int"
        /\ task[t].results[d].root = PACKAGE_BUILTIN

\* C13: while the config directory is not set, every call returns at once
\* with IntegrationNotFound for each requested domain and for no other,
\* submits no job, creates no marker, and the registry, the custom
\* components and the events stay as they were before the first call.
C13_NoConfigDirNotFound ==
    ~config.config_dir =>
        /\ integrations = None
        /\ custom = None
        /\ evset = {}
        /\ \A t \in Tasks :
              task[t].pc # "idle" =>
                  /\ Returned(t)
                  /\ task[t].io = {}
                  /\ task[t].owned = EmptyDict
                  /\ task[t].in_progress = EmptyDict
                  /\ \A d \in Domains :
                        task[t].results[d] =
                            IF Requested(t, d) THEN IntegrationNotFound(d)
                            ELSE Undef

\* C13 witness: without a config directory a call for a dotted and a plain
\* domain returned IntegrationNotFound for both.
C13_Witness ==
    \E t \in Tasks :
        /\ ~config.config_dir
        /\ Returned(t) /\ task[t].domains = <<DomDotted, DomB>>
        /\ task[t].results[DomDotted] = IntegrationNotFound(DomDotted)
        /\ task[t].results[DomB] = IntegrationNotFound(DomB)
        /\ integrations = None

\* Manifests the version gate of the custom root blocks.
Unversioned == {"noversion", "badversion"}

\* C14: with the custom root scanned and the roots unchanged, a domain
\* whose only manifest is an unversioned one under the custom root gets
\* IntegrationNotFound from every call that returns, and a domain with that
\* manifest under the built-in root (and none the custom root loads) gets
\* the built-in Integration.
C14_VersionGate ==
    \A t \in Tasks, d \in PlainDomains :
        ( /\ edits = 0 /\ config.config_dir /\ CustomScanned
          /\ Returned(t) /\ Requested(t, d) ) =>
            /\ (customFS[d] \in Unversioned /\ builtinFS[d] = "none") =>
                  task[t].results[d].kind = "notfound"
            /\ (builtinFS[d] \in Unversioned /\ customFS[d] # "valid") =>
                  /\ task[t].results[d].kind = "int"
                  /\ task[t].results[d].root = PACKAGE_BUILTIN

\* MAX_LOAD_CONCURRENTLY (line 57)
MAX_LOAD_CONCURRENTLY == 4

\* The calls whose built-in probe has been handed to the executor and has
\* not yet returned to them (line 784).
BuiltinInFlight == {t \in Tasks : task[t].pc = "builtin_job"}

\* C15: at most MAX_LOAD_CONCURRENTLY built-in-root resolutions are in
\* flight at any moment.
C15_BoundedBuiltinFanOut ==
    Cardinality(BuiltinInFlight) <= MAX_LOAD_CONCURRENTLY

\* C16: a step in which a worker finishes a job leaves the registry, the
\* custom components, the events and the module cache as they are; an
\* Integration enters the registry, and a mapping becomes the custom
\* components, only in a step of the event loop that takes it from a job
\* that had returned (or from the mapping already cached); and the module
\* cache changes only in steps in which no job changes.
C16_WorkersLeaveCaches ==
    [][/\ (\E t \in Tasks :
              /\ task[t].job.state = "queued"
              /\ task'[t].job.state \in {"returned", "raised"})
          => /\ integrations' = integrations
             /\ custom' = custom
             /\ evset' = evset
             /\ components' = components
       /\ \A d \in Domains :
             ( /\ integrations'.kind = "dict"
               /\ integrations'.map[d].kind = "int"
               /\ integrations'.map[d] # Cache(d) )
             => \/ \E t \in Tasks :
                      /\ task[t].job.state = "returned"
                      /\ task'[t].job.state # "returned"
                      /\ task[t].job.ints[d] = integrations'.map[d]
                \/ /\ custom.kind = "reg"
                   /\ custom.map[d] = integrations'.map[d]
       /\ (custom'.kind = "reg" /\ custom' # custom)
             => \E t \in Tasks :
                   /\ task[t].job.state = "returned"
                   /\ task'[t].job.state # "returned"
                   /\ custom'.map = task[t].job.ints
       /\ components' # components
             => \A t \in Tasks : task'[t].job = task[t].job
      ]_vars

\* C16 witness: a worker has returned the Integration of d while the
\* registry still holds the pending marker of d, and the module cache holds
\* a module.
C16_Witness ==
    \E t \in Tasks, d \in PlainDomains :
        /\ task[t].job.state = "returned"
        /\ task[t].job.ints[d].kind = "int"
        /\ Cache(d).kind = "evt"
        /\ custom.kind = "reg" /\ Keys(custom.map) # {}
        /\ components # None /\ components.keys # {}

\* ------------------------------------------------------------------------
\* C17 .. C20
\* ------------------------------------------------------------------------

\* The resolve_dependencies call of task t returned a boolean.
Resolved(t) == task[t].res.outcome \in {"True", "False"}

\* C17: a resolve_dependencies call made after a call on the same plugin
\* had returned b returns b as well and fetches no dependency.
C17_MemoizedTerminal ==
    \A t \in Tasks :
        Resolved(t) =>
            \A b \in task[t].res.prior :
                /\ task[t].res.outcome = b
                /\ task[t].res.fetched = {}

\* The resolve_dependencies call of task t ran the traversal and returned
\* (a traversal fetches at least the first dependency of its start).
Traversed(t) == Resolved(t) /\ task[t].res.fetched # {}

\* The circular dependency that the call of task t logged.
Edge(t) ==
    IF task[t].res.err.kind = "circular"
    THEN <<task[t].res.err.from_domain, task[t].res.err.to_domain>>
    ELSE <<>>

\* The manifests form the chain a -> b -> c -> a of hard dependencies.
HardCycle ==
    /\ manifestData[DomA].dependencies = <<DomB>>
    /\ manifestData[DomB].dependencies = <<DomC>>
    /\ manifestData[DomC].dependencies = <<DomA>>

\* C18 as stated: with the chain a -> b -> c -> a, a traversal from any of
\* the three returns false and the circular dependency it reports is the
\* edge from c to a.
C18_SameEdgeFromEveryStart ==
    \A t \in Tasks :
        (HardCycle /\ Traversed(t)) =>
            /\ task[t].res.outcome = "False"
            /\ Edge(t) = <<DomC, DomA>>

\* C18 amended: with the chain a -> b -> c -> a, a traversal from any of
\* the three returns false and the circular dependency it reports is the
\* edge that leads back into the plugin it started from: (c, a) from a,
\* (a, b) from b, (b, c) from c.
C18_EdgeClosingTheCycle ==
    \A t \in Tasks :
        (HardCycle /\ Traversed(t)) =>
            /\ task[t].res.outcome = "False"
            /\ resolution[task[t].res.start].resolved = "False"
            /\ task[t].res.start = DomA => Edge(t) = <<DomC, DomA>>
            /\ task[t].res.start = DomB => Edge(t) = <<DomA, DomB>>
            /\ task[t].res.start = DomC => Edge(t) = <<DomB, DomC>>

\* C18 witness: the three plugins of the chain have each been resolved and
\* the three traversals reported three different edges.
C18_Witness ==
    /\ HardCycle
    /\ \A t \in Tasks : Traversed(t)
    /\ {task[t].res.start : t \in Tasks} = {DomA, DomB, DomC}
    /\ {Edge(t) : t \in Tasks} =
          {<<DomC, DomA>>, <<DomA, DomB>>, <<DomB, DomC>>}

\* The domains the manifest of d lists as dependencies.
DependsOn(d) ==
    IF d \in DOMAIN manifestData
    THEN {manifestData[d].dependencies[i] :
            i \in 1..Len(manifestData[d].dependencies)}
    ELSE {}

RECURSIVE Closure(_)
\* The least set that holds S and the dependencies of its members.
Closure(S) ==
    LET T == S \cup UNION {DependsOn(d) : d \in S}
    IN IF T = S THEN S ELSE Closure(T)

\* The domains reachable from d over one or more dependency edges.
Reachable(d) == Closure(DependsOn(d))

\* x lists y in its after_dependencies.
After(x, y) ==
    \E i \in 1..Len(manifestData[x].after_dependencies) :
        manifestData[x].after_dependencies[i] = y

\* The traversal of task t got the Integration of x from the registry.
Obtained(t, x) ==
    /\ x \in task[t].res.fetched
    /\ ~(task[t].res.err.kind = "notfound" /\ task[t].res.err.domain = x)

\* C19 as stated: if x lists y in its after_dependencies and y depends on
\* x, directly or through other dependencies, a traversal from y returns
\* false, the circular dependency it reports is (y, x), and False is
\* stored for y.
C19_SoftCycleReported ==
    \A t \in Tasks, x \in PlainDomains :
        ( /\ Traversed(t)
          /\ x \in Reachable(task[t].res.start)
          /\ After(x, task[t].res.start) ) =>
            /\ task[t].res.outcome = "False"
            /\ Edge(t) = <<task[t].res.start, x>>
            /\ resolution[task[t].res.start].resolved = "False"

\* C19 amended: if x lists y in its after_dependencies and y depends on x,
\* directly or through other dependencies, a traversal from y returns
\* false and False is stored for y; and if the traversal got the
\* Integration of x, the circular dependency it reports is (y, x).
C19_SoftCycleRejected ==
    \A t \in Tasks, x \in PlainDomains :
        ( /\ Traversed(t)
          /\ After(x, task[t].res.start) ) =>
            /\ x \in Reachable(task[t].res.start) =>
                  /\ task[t].res.outcome = "False"
                  /\ resolution[task[t].res.start].resolved = "False"
                  /\ resolution[task[t].res.start].all = None
            /\ Obtained(t, x) =>
                  /\ task[t].res.outcome = "False"
                  /\ Edge(t) = <<task[t].res.start, x>>

\* C19 witness: c lists a and b in its after_dependencies; the traversal
\* from b (which depends on c) and the one from a (which depends on c
\* through b) have both been rejected.
C19_Witness ==
    \E t \in Tasks, u \in Tasks :
        /\ After(DomC, DomA) /\ After(DomC, DomB)
        /\ Traversed(t) /\ task[t].res.start = DomA
        /\ task[t].res.fetched = {DomB, DomC}
        /\ Edge(t) = <<DomA, DomC>>
        /\ Traversed(u) /\ task[u].res.start = DomB
        /\ task[u].res.fetched = {DomC}
        /\ Edge(u) = <<DomB, DomC>>

\* C20: no resolve_dependencies call ends with an exception.
C20_NeverRaises ==
    \A t \in Tasks : task[t].res.outcome # "raised"

\* ------------------------------------------------------------------------
\* C21 .. C26: the dependency set and the traversal
\* ------------------------------------------------------------------------

\* C21: whenever True is stored for a plugin, the stored set of
\* dependencies is the set of domains reachable from it over one or more
\* hard-dependency edges, without the plugin itself; a call that returned
\* True finds exactly that set in all_dependencies.
C21_AllDependenciesIsClosure ==
    /\ \A d \in PlainDomains :
          AllDependenciesResolved(Heap, d) = "True" =>
              all_dependencies(Heap, d) =
                  [kind |-> "set", set |-> Reachable(d) \ {d}]
    /\ \A t \in Tasks :
          task[t].res.outcome = "True" =>
              all_dependencies(Heap, task[t].res.start).set =
                  Reachable(task[t].res.start) \ {task[t].res.start}

\* C21 witness: the traversal from a over the diamond a -> [b, c], b -> [c]
\* returned True and {b, c} is stored for a.
C21_Witness ==
    \E t \in Tasks :
        /\ Traversed(t) /\ task[t].res.outcome = "True"
        /\ task[t].res.start = DomA
        /\ DependsOn(DomA) = {DomB, DomC} /\ DependsOn(DomB) = {DomC}
        /\ resolution[DomA].all = [kind |-> "set", set |-> {DomB, DomC}]

\* The discovery accessor that task t called has returned.
Discovered(t, protocol) ==
    task[t].disc.protocol = protocol /\ task[t].pc = "done"

\* The custom plugins whose manifest has a fragment for the protocol.
Contributing(protocol) ==
    {d \in PlainDomains :
        /\ custom.kind = "reg"
        /\ custom.map[d].kind = "int"
        /\ manifestData[d][protocol] # <<>>}

\* The type of the one zeroconf entry of plugin d.
TypeOf(d) ==
    IF manifestData[d].zeroconf[1].kind = "dict"
    THEN manifestData[d].zeroconf[1].dict["type"]
    ELSE manifestData[d].zeroconf[1].str

\* list is the static entries followed by exactly one entry tagged with
\* each of the plugins.
StaticThenOnePerPlugin(list, static, plugins) ==
    /\ Len(list) = Len(static) + Cardinality(plugins)
    /\ SubSeq(list, 1, Len(static)) = static
    /\ \A d \in plugins :
          Cardinality({i \in (Len(static) + 1)..Len(list) :
                          list[i]["domain"] = d}) = 1

\* The list a mapping holds for a key: empty without the key.
ListAt(mapping, key) ==
    IF key \in DOMAIN mapping THEN mapping[key] ELSE <<>>

ZeroconfTypes == {"_t1", "_t2"}

\* C22: what a discovery accessor returned is the table of
\* homeassistant.generated when no custom plugin has a fragment for the
\* protocol, and otherwise that table followed by exactly one entry tagged
\* with the domain of each plugin that has one (for zeroconf under the type
\* of the entry, for ssdp under the domain of the plugin).
C22_StaticThenOnePerPlugin ==
    \A t \in Tasks :
        /\ Discovered(t, "dhcp") =>
              StaticThenOnePerPlugin(task[t].disc.out, GeneratedTables.DHCP,
                                     Contributing("dhcp"))
        /\ Discovered(t, "zeroconf") =>
              /\ DOMAIN task[t].disc.out \subseteq ZeroconfTypes
              /\ \A typ \in ZeroconfTypes :
                    StaticThenOnePerPlugin(
                        ListAt(task[t].disc.out, typ),
                        ListAt(GeneratedTables.ZEROCONF, typ),
                        {d \in Contributing("zeroconf") : TypeOf(d) = typ})
        /\ Discovered(t, "ssdp") =>
              /\ DOMAIN task[t].disc.out =
                    DOMAIN GeneratedTables.SSDP \cup Contributing("ssdp")
              /\ \A d \in DOMAIN GeneratedTables.SSDP :
                    task[t].disc.out[d] = GeneratedTables.SSDP[d]
              /\ \A d \in Contributing("ssdp") :
                    task[t].disc.out[d] = manifestData[d].ssdp

\* The matcher dict as the manifest had it when it was loaded (the call
\* writes to the properties dict of the manifest, and to nothing else).
Original(entry) ==
    CHOOSE e \in MatcherEntries :
        /\ Pop(e, "properties") = Pop(entry, "properties")
        /\ ("properties" \in DOMAIN e) = ("properties" \in DOMAIN entry)

LegacyKeys == {MOVED_ZEROCONF_PROPS[i] : i \in DOMAIN MOVED_ZEROCONF_PROPS}

\* The legacy keys of the matcher dict that have a non-empty value.
Moved(entry) == {p \in LegacyKeys \cap DOMAIN entry : entry[p] # <<>>}

\* data is the matcher dict entry migrated: no "type", no legacy key at
\* top level, every legacy key that had a non-empty value under
\* "properties" in lower case, every other key and every other property
\* as it was.
Migrated(data, entry) ==
    /\ "type" \notin DOMAIN data
    /\ LegacyKeys \cap DOMAIN data = {}
    /\ \A p \in Moved(entry) :
          /\ "properties" \in DOMAIN data
          /\ p \in DOMAIN data["properties"]
          /\ data["properties"][p] = lower(entry[p])
          /\ \A i \in 1..Len(entry[p]) :
                data["properties"][p][i] \notin {"A", "B"}
    /\ \A key \in DOMAIN entry \ (LegacyKeys \cup {"type", "properties"}) :
          key \in DOMAIN data /\ data[key] = entry[key]
    /\ DOMAIN data \ {"properties"} =
          DOMAIN entry \ (LegacyKeys \cup {"type", "properties"})
    /\ ("properties" \in DOMAIN data) =
          ("properties" \in DOMAIN entry \/ Moved(entry) # {})
    /\ "properties" \in DOMAIN data =>
          /\ DOMAIN data["properties"] =
                Moved(entry) \cup
                    (IF "properties" \in DOMAIN entry
                     THEN DOMAIN entry["properties"] ELSE {})
          /\ "properties" \in DOMAIN entry =>
                \A q \in DOMAIN entry["properties"] \ Moved(entry) :
                    data["properties"][q] = entry["properties"][q]

\* C23: for every matcher dict of the model, and for every matcher dict a
\* custom plugin contributed to a zeroconf table that was returned, what
\* async_process_zeroconf_match_dict returns is the dict migrated.
C23_LegacyKeysMigrated ==
    /\ \A e \in MatcherEntries :
          Migrated(async_process_zeroconf_match_dict(e), e)
    /\ \A t \in Tasks :
          Discovered(t, "zeroconf") =>
              \A d \in Contributing("zeroconf") :
                  manifestData[d].zeroconf[1].kind = "dict" =>
                      LET list == task[t].disc.out[TypeOf(d)] IN
                      \A i \in 1..Len(list) :
                          list[i]["domain"] = d =>
                              Migrated(Pop(list[i], "domain"),
                                       Original(manifestData[d].zeroconf[1].dict))

\* C23 witness: async_get_zeroconf returned an entry of plugin a whose
\* manifest gave macaddress "A", manufacturer "B1" and a properties dict
\* with macaddress "B": the entry holds only domain and properties, with
\* macaddress "a" and manufacturer "b1".
C23_Witness ==
    \E t \in Tasks :
        /\ Discovered(t, "zeroconf")
        /\ DomA \in Contributing("zeroconf")
        /\ manifestData[DomA].zeroconf[1].kind = "dict"
        /\ Pop(manifestData[DomA].zeroconf[1].dict, "properties") =
              ("type" :> "_t1" @@ "macaddress" :> <<"A">>
               @@ "manufacturer" :> <<"B", "1">>)
        /\ \E i \in 1..Len(task[t].disc.out["_t1"]) :
              task[t].disc.out["_t1"][i] =
                  ("domain" :> DomA
                   @@ "properties" :> ("macaddress" :> <<"a">>
                                       @@ "manufacturer" :> <<"b", "1">>))

\* A cycle of hard dependencies can be reached from d.
CycleReachable(d) ==
    \E e \in Reachable(d) \cup {d} : e \in Reachable(e)

\* C24: a traversal that returned for a plugin from which a cycle of hard
\* dependencies can be reached returned false.
C24_EveryCycleDetected ==
    \A t \in Tasks :
        (Traversed(t) /\ CycleReachable(task[t].res.start)) =>
            task[t].res.outcome = "False"

\* The traversal of task t is under way.
Traversing(t) == task[t].res.mode = "deps"

\* The domains of the recursion stack of the traversal of task t.
OnStack(t) ==
    {task[t].res.stack[i].domain : i \in 1..Len(task[t].res.stack)}

\* C25: while a traversal is under way, every domain in `loaded` has been
\* fetched and left the recursion stack with all its dependencies in
\* `loaded`, and `loading` is the set of domains on the recursion stack.
C25_LoadedAfterSubtree ==
    \A t \in Tasks :
        Traversing(t) =>
            /\ task[t].res.loading = OnStack(t)
            /\ \A d \in task[t].res.loaded :
                  /\ d \notin OnStack(t)
                  /\ task[t].results[d].kind = "int" \/ d # task[t].res.cur
                  /\ DependsOn(d) \subseteq task[t].res.loaded

\* C26: two calls on the same plugin that both began before any call on it
\* had returned return the same boolean, and what is stored for a plugin,
\* once it is not None, stays as it is.
C26_ConcurrentCallsAgree ==
    /\ [](\A t, u \in Tasks :
            ( /\ Resolved(t) /\ Resolved(u)
              /\ task[t].res.start = task[u].res.start
              /\ task[t].res.prior = {} /\ task[u].res.prior = {} ) =>
                task[t].res.outcome = task[u].res.outcome)
    /\ [][\A d \in DOMAIN resolution :
             resolution[d].resolved # "None" =>
                 resolution'[d] = resolution[d]]_vars

\* ------------------------------------------------------------------------
\* C27 .. C30: the registry under concurrent calls
\* ------------------------------------------------------------------------

\* The entries of the registry cache (none before the cache exists).
CacheEntries == IF integrations.kind = "dict" THEN integrations.map ELSE EmptyDict

\* Every domain the call of task t names has a dot.
OnlyDotted(domains) == \A i \in 1..Len(domains) : HasDot(domains[i])

\* C27: the registry cache never has an entry, pending or resolved, under
\* a domain with a dot, and the step in which a call that names only
\* dotted domains is made leaves the entries of the cache as they were.
C27_DottedNeverCached ==
    /\ [](\A d \in Domains : HasDot(d) => Cache(d) = Undef)
    /\ [][\A t \in Tasks :
             ( /\ task[t].pc = "idle" /\ task'[t].pc # "idle"
               /\ OnlyDotted(task'[t].domains) ) =>
                 /\ CacheEntries' = CacheEntries
                 /\ task'[t].owned = EmptyDict]_vars

\* C27 witness: a call for a dotted domain alone and a call for a dotted
\* and a plain domain have returned; the cache holds the Integration of
\* the plain domain and nothing for the dotted one.
C27_Witness ==
    \E t \in Tasks, u \in Tasks :
        /\ Returned(t) /\ task[t].domains = <<DomDotted>>
        /\ Returned(u) /\ task[u].domains = <<DomDotted, DomB>>
        /\ task[u].results[DomDotted].kind = "valueerror"
        /\ Cache(DomB).kind = "int"
        /\ Cache(DomDotted) = Undef

\* C28: every value of the mapping a call returned is an Integration, an
\* IntegrationNotFound or a ValueError, never an asyncio.Event.
C28_NoMarkerReturned ==
    \A t \in Tasks, d \in Domains :
        (Returned(t) /\ Requested(t, d)) =>
            task[t].results[d].kind \in {"int", "notfound", "valueerror"}

\* C29: no call waits on a marker that it created itself.
C29_NoSelfWait ==
    \A t \in Tasks, d \in Domains :
        Waited(t, d) => task[t].in_progress[d] # task[t].owned[d]

\* Task t is suspended at line 756 on a marker that task u created and has
\* not set.
WaitsFor(t, u) ==
    /\ task[t].pc = "gather"
    /\ \E d \in Domains :
          /\ Waited(t, d)
          /\ task[t].in_progress[d] = task[u].owned[d]
          /\ task[t].in_progress[d] \notin evset

\* The tasks that t waits for, directly or through other tasks.
WaitsForClosure(t) ==
    LET direct(S) == S \cup {v \in Tasks : \E u \in S : WaitsFor(u, v)}
        first == {v \in Tasks : WaitsFor(t, v)}
    IN direct(direct(direct(first)))

\* C30: no task waits, directly or through other tasks, for a marker of
\* its own, and every call that was made returns a mapping with a value
\* for every domain it named.
C30_DeadlockFree ==
    /\ [](\A t \in Tasks : t \notin WaitsForClosure(t))
    /\ \A t \in {"t1", "t2", "t3"} :
          (task[t].pc # "idle") ~>
              ( /\ Returned(t)
                /\ \A d \in Domains :
                      Requested(t, d) => task[t].results[d].kind # "undef" )

\* C30 on the hosts whose custom_components directory can be listed (no
\* executor job raises).
C30_HoldsWithReadableRoot == (customRoot = "unreadable") \/ C30_DeadlockFree

\* ------------------------------------------------------------------------
\* C31, C32
\* ------------------------------------------------------------------------

\* C31: the module-level ZEROCONF table stays as it was generated; a call
\* of async_get_zeroconf returns a table equal to the tables that earlier
\* calls returned, as they were before the call; and no list of a returned
\* table holds two entries tagged with the same custom plugin.
C31_ZeroconfRepeatable ==
    /\ [](generated.ZEROCONF = GeneratedTables.ZEROCONF)
    /\ [][\A t \in Tasks, u \in Tasks :
            ( /\ Discovered(t, "zeroconf")
              /\ ~Discovered(u, "zeroconf")
              /\ task'[u].disc.protocol = "zeroconf" /\ task'[u].pc = "done" )
            => task'[u].disc.out = task[t].disc.out]_vars
    /\ [](\A t \in Tasks :
            Discovered(t, "zeroconf") =>
                \A typ \in DOMAIN task[t].disc.out, d \in Contributing("zeroconf") :
                    Cardinality({i \in 1..Len(task[t].disc.out[typ]) :
                                    task[t].disc.out[typ][i]["domain"] = d}) <= 1)

\* C32: for every Integration, in every state, if all_dependencies_resolved
\* is true then all_dependencies returns a set.
C32_ResolvedImpliesReadable ==
    \A d \in PlainDomains :
        all_dependencies_resolved(Heap, d) =>
            all_dependencies(Heap, d).kind = "set"

====
